---- MODULE Spec2Model ----
(***************************************************************************)
(* Verification model of redis-rust: the RESP frame codec                  *)
(* (src/resp/types.rs, src/resp/parser.rs), the keyspace (src/db.rs) and   *)
(* the SET/GET command handlers (src/commands/default.rs).                 *)
(*                                                                         *)
(* Bytes are integers 0..255.  Text is a sequence of bytes.                *)
(***************************************************************************)
EXTENDS Integers, Sequences, FiniteSets, TLC

VARIABLES
    frames,     \* codec: the frames whose encodings the client sends
    wire,       \* codec: the bytes the client sends
    pieces,     \* codec: the chunks of the byte stream not yet fed
    buf,        \* codec: FrameParser.buf
    hist,       \* codec: one record per parse() call made so far
    KV,         \* db::KV, the value map
    EXP,        \* db::EXP, the expiry map
    now,        \* tokio::time::Instant::now(), in milliseconds
    pend,       \* the db::get in flight between its two lock acquisitions
    last,       \* the command completed last: arguments, reply, state before
    fresh,      \* history: per key, the value of the last plain SET still in force
    task,       \* locks: per task, the call in progress and where it stands
    kvLock,     \* locks: the RwLock of db::KV
    expLock,    \* locks: the RwLock of db::EXP
    taken,      \* history: per key, the value of the plain SET that took KV.write last
    written,    \* history: per key, the values db::set has stored
    disk,       \* snapshot: the files of the directory `dir`, per path
    dbfilename, \* snapshot: Config.dbfilename
    out,        \* snapshot: the call of save or load made last
    lenio,      \* snapshot: a length, the buffer it is written to, what is read back
    conn        \* server: the connections

codecVars == <<frames, wire, pieces, buf, hist>>
keyVars == <<KV, EXP, now, pend, last, fresh>>
lockVars == <<task, kvLock, expLock, taken, written>>
rdbVars == <<disk, dbfilename, out>>
connVars == <<conn>>
lenVars == <<lenio>>
vars == <<frames, wire, pieces, buf, hist, KV, EXP, now, pend, last, fresh,
          task, kvLock, expLock, taken, written, disk, dbfilename, out, conn, lenio>>

(***************************************************************************)
(* Bounds of the model.                                                    *)
(***************************************************************************)
MaxDepth == 2       \* nesting depth of the frames the client sends
MaxParses == 3      \* parse() calls per run of the codec
MaxTime == 2        \* the clock stops after this many milliseconds
MaxRuns == 1        \* calls per task under the locks

(***************************************************************************)
(* Frame (src/resp/types.rs).  Every frame is a record with the same       *)
(* fields: tag (the variant), null (the None form of an Option payload),   *)
(* val (a payload of bytes or numbers), subtype (VerbatimString only) and  *)
(* kids (the frames of an aggregate).                                      *)
(*   SimpleString, Error, BigNumber, BulkError, BulkString: val = bytes    *)
(*   Integer: val = <<n>>;  Boolean: val = <<1>> or <<0>>                  *)
(*   Double: val = <<t>>, the number t/10 (one decimal digit is kept)      *)
(*   Array, Set, Push: kids = child frames in order                        *)
(*   Map, Attribute: kids = key 1, value 1, key 2, value 2, ...            *)
(***************************************************************************)
Frame(tag, null, val) == [tag |-> tag, null |-> null, val |-> val, subtype |-> <<>>, kids |-> <<>>]
VerbatimString(subtype, data) == [tag |-> "VerbatimString", null |-> FALSE, val |-> data, subtype |-> subtype, kids |-> <<>>]
ListF(tag, items) == [tag |-> tag, null |-> FALSE, val |-> <<>>, subtype |-> <<>>, kids |-> items]
NoFrame == Frame("NoFrame", TRUE, <<>>)

ListTags == {"Array", "Set", "Push"}
MapTags == {"Map", "Attribute"}

\* The tag byte of each variant: '+', '-', ':', '$', '*', '_', '#', ',',
\* '(', '!', '=', '%', '~', '|', '>'.
TagOf == [SimpleString |-> 43, Error |-> 45, Integer |-> 58, BulkString |-> 36,
          Array |-> 42, Null |-> 95, Boolean |-> 35, Double |-> 44,
          BigNumber |-> 40, BulkError |-> 33, VerbatimString |-> 61,
          Map |-> 37, Set |-> 126, Attribute |-> 124, Push |-> 62]

CRLF == <<13, 10>>
MinusOne == <<45, 49>>      \* the text "-1"

(***************************************************************************)
(* Decimal formatting and parsing (format!("{}", n), str::parse).          *)
(***************************************************************************)
IsDigit(c) == c \in 48..57

RECURSIVE FmtNat(_)
FmtNat(n) == IF n < 10 THEN <<48 + n>> ELSE FmtNat(n \div 10) \o <<48 + (n % 10)>>

FmtInt(n) == IF n < 0 THEN <<45>> \o FmtNat(-n) ELSE FmtNat(n)

\* format!("{}", d) for the f64 t/10: "2" for 2.0, "1.5", "-0.5".
FmtDouble(t) ==
    LET a == IF t < 0 THEN -t ELSE t
        sign == IF t < 0 THEN <<45>> ELSE <<>>
    IN sign \o FmtNat(a \div 10) \o (IF a % 10 = 0 THEN <<>> ELSE <<46, 48 + (a % 10)>>)

RECURSIVE DigitsVal(_)
DigitsVal(s) ==
    IF s = <<>> THEN 0 ELSE 10 * DigitsVal(SubSeq(s, 1, Len(s) - 1)) + (s[Len(s)] - 48)

AllDigits(s) == \A i \in 1..Len(s) : IsDigit(s[i])

\* str::parse::<i64>() and ::<isize>(): an optional '+' or '-', then one or
\* more digits.  (Digit strings of the model stay far below 2^63.)
ParseSigned(s) ==
    LET signed == Len(s) > 0 /\ s[1] \in {43, 45}
        digits == IF signed THEN Tail(s) ELSE s
    IN IF s = <<>> THEN [ok |-> FALSE, val |-> 0, msg |-> "cannot parse integer from empty string"]
       ELSE IF digits = <<>> \/ ~AllDigits(digits)
            THEN [ok |-> FALSE, val |-> 0, msg |-> "invalid digit found in string"]
       ELSE [ok |-> TRUE, val |-> IF s[1] = 45 THEN -DigitsVal(digits) ELSE DigitsVal(digits), msg |-> ""]

\* str::parse::<usize>(): an optional '+', then one or more digits.
ParseUnsigned(s) ==
    LET signed == Len(s) > 0 /\ s[1] = 43
        digits == IF signed THEN Tail(s) ELSE s
    IN IF s = <<>> THEN [ok |-> FALSE, val |-> 0, msg |-> "cannot parse integer from empty string"]
       ELSE IF digits = <<>> \/ ~AllDigits(digits)
            THEN [ok |-> FALSE, val |-> 0, msg |-> "invalid digit found in string"]
       ELSE [ok |-> TRUE, val |-> DigitsVal(digits), msg |-> ""]

\* str::parse::<f64>() on the decimal texts of the model: an optional sign,
\* digits, and an optional '.' with digits, of which the first is kept.
ParseDouble(s) ==
    LET signed == Len(s) > 0 /\ s[1] \in {43, 45}
        body == IF signed THEN Tail(s) ELSE s
        dots == {i \in 1..Len(body) : body[i] = 46}
        dot == IF dots = {} THEN Len(body) + 1 ELSE CHOOSE i \in dots : \A j \in dots : i <= j
        whole == SubSeq(body, 1, dot - 1)
        frac == SubSeq(body, dot + 1, Len(body))
        mag == 10 * DigitsVal(whole) + (IF frac = <<>> THEN 0 ELSE frac[1] - 48)
    IN IF Cardinality(dots) > 1 \/ ~AllDigits(whole) \/ ~AllDigits(frac) \/ (whole = <<>> /\ frac = <<>>)
       THEN [ok |-> FALSE, val |-> 0, msg |-> "invalid float literal"]
       ELSE [ok |-> TRUE, val |-> IF signed /\ s[1] = 45 THEN -mag ELSE mag, msg |-> ""]

(***************************************************************************)
(* Frame::encode (src/resp/types.rs).                                      *)
(***************************************************************************)
RECURSIVE Encode(_), EncodeAll(_)
EncodeAll(fs) == IF fs = <<>> THEN <<>> ELSE Encode(Head(fs)) \o EncodeAll(Tail(fs))

Encode(f) ==
    LET t == <<TagOf[f.tag]>>
    IN CASE f.tag \in {"SimpleString", "Error", "BigNumber"} -> t \o f.val \o CRLF
         [] f.tag = "Integer" -> t \o FmtInt(f.val[1]) \o CRLF
         [] f.tag = "BulkString" ->
                IF f.null THEN t \o MinusOne \o CRLF
                ELSE t \o FmtNat(Len(f.val)) \o CRLF \o f.val \o CRLF
         [] f.tag = "Null" -> t \o CRLF
         [] f.tag = "Boolean" -> t \o (IF f.val[1] = 1 THEN <<116>> ELSE <<102>>) \o CRLF
         [] f.tag = "Double" -> t \o FmtDouble(f.val[1]) \o CRLF
         [] f.tag = "BulkError" -> t \o FmtNat(Len(f.val)) \o CRLF \o f.val \o CRLF
         [] f.tag = "VerbatimString" ->
                t \o f.subtype \o <<32>> \o FmtNat(Len(f.val)) \o CRLF \o f.val \o CRLF
         [] f.tag \in ListTags ->
                IF f.null THEN t \o MinusOne \o CRLF
                ELSE t \o FmtNat(Len(f.kids)) \o CRLF \o EncodeAll(f.kids)
         [] f.tag \in MapTags ->
                IF f.null THEN t \o MinusOne \o CRLF
                ELSE t \o FmtNat(Len(f.kids) \div 2) \o CRLF \o EncodeAll(f.kids)

(***************************************************************************)
(* BytesMut (crate bytes), as far as the parser uses it.                   *)
(*   split_to(n): the first n bytes leave the buffer; advance(n) drops     *)
(*   them; split(): all bytes leave the buffer; clone(): a deep copy;      *)
(*   unsplit(other): other becomes the buffer when the buffer is empty,    *)
(*   and is appended to it otherwise.                                      *)
(***************************************************************************)
Unsplit(self, other) == IF self = <<>> THEN other ELSE self \o other

\* String::from_utf8 fails, and from_utf8_lossy substitutes U+FFFD, on a byte
\* that is no UTF-8: of the bytes of the model, those above 127.
ValidUtf8(s) == \A i \in 1..Len(s) : s[i] < 128

RECURSIVE Utf8Lossy(_)
Utf8Lossy(s) ==
    IF s = <<>> THEN <<>>
    ELSE IF Len(s) >= 3 /\ SubSeq(s, 1, 3) = <<239, 191, 189>>
         THEN <<239, 191, 189>> \o Utf8Lossy(SubSeq(s, 4, Len(s)))
    ELSE (IF s[1] < 128 THEN <<s[1]>> ELSE <<239, 191, 189>>) \o Utf8Lossy(Tail(s))

(***************************************************************************)
(* FrameParser (src/resp/parser.rs).  The result of a parse function is    *)
(* its Rust result together with the buffer it leaves behind:              *)
(*   kind "frame": Ok(Some(frame)) / Ok(frame);  "none": Ok(None);         *)
(*   "err": Err(msg);  "panic": the call unwinds.                          *)
(***************************************************************************)
RFrame(f, b) == [kind |-> "frame", frame |-> f, msg |-> "", buf |-> b]
RNone(b) == [kind |-> "none", frame |-> NoFrame, msg |-> "", buf |-> b]
RErr(m, b) == [kind |-> "err", frame |-> NoFrame, msg |-> m, buf |-> b]
RPanic(m, b) == [kind |-> "panic", frame |-> NoFrame, msg |-> m, buf |-> b]

\* parse_line: the bytes before the first CRLF, which it removes from the
\* buffer together with the CRLF; nothing is removed when there is none.
parse_line(b) ==
    LET hits == {i \in 1..(Len(b) - 1) : b[i] = 13 /\ b[i + 1] = 10}
        i == CHOOSE k \in hits : \A j \in hits : k <= j
    IN IF hits = {} THEN [found |-> FALSE, line |-> <<>>, rest |-> b]
       ELSE [found |-> TRUE, line |-> SubSeq(b, 1, i - 1), rest |-> SubSeq(b, i + 2, Len(b))]

\* The header line of a frame: body is the line after its type byte, rest
\* the buffer after the line; res is what the parser returns when there is
\* no line (ok is false).
LineFrame(b) ==
    LET l == parse_line(b)
    IN IF ~l.found
       THEN [ok |-> FALSE, res |-> RErr("Incomplete", b), body |-> <<>>, rest |-> b]
       ELSE IF ~ValidUtf8(l.line)
       THEN [ok |-> FALSE, res |-> RPanic("from_utf8", l.rest), body |-> <<>>, rest |-> l.rest]
       ELSE [ok |-> TRUE, res |-> RNone(l.rest), body |-> Tail(l.line), rest |-> l.rest]

parse_simple(b) ==
    LET ln == LineFrame(b)  body == ln.body  rest == ln.rest
    IN IF ~ln.ok THEN ln.res ELSE (RFrame(Frame("SimpleString", FALSE, body), rest))

parse_error(b) ==
    LET ln == LineFrame(b)  body == ln.body  rest == ln.rest
    IN IF ~ln.ok THEN ln.res ELSE (RFrame(Frame("Error", FALSE, body), rest))

parse_integer(b) ==
    LET ln == LineFrame(b)  body == ln.body  rest == ln.rest
    IN IF ~ln.ok THEN ln.res ELSE (
        LET n == ParseSigned(body)
        IN IF n.ok THEN RFrame(Frame("Integer", FALSE, <<n.val>>), rest) ELSE RErr(n.msg, rest))

parse_bulk(b) ==
    LET ln == LineFrame(b)  body == ln.body  rest == ln.rest
    IN IF ~ln.ok THEN ln.res ELSE (
        LET n == ParseSigned(body)
        IN IF ~n.ok THEN RErr(n.msg, rest)
           ELSE IF n.val < 0 THEN RFrame(Frame("BulkString", TRUE, <<>>), rest)
           ELSE IF Len(rest) >= n.val + 2
                THEN RFrame(Frame("BulkString", FALSE, SubSeq(rest, 1, n.val)),
                            SubSeq(rest, n.val + 3, Len(rest)))
           ELSE RErr("Incomplete", rest))

parse_null(b) ==
    LET ln == LineFrame(b)  body == ln.body  rest == ln.rest
    IN IF ~ln.ok THEN ln.res ELSE (RFrame(Frame("Null", FALSE, <<>>), rest))

parse_boolean(b) ==
    LET ln == LineFrame(b)  body == ln.body  rest == ln.rest
    IN IF ~ln.ok THEN ln.res ELSE (
        IF body = <<116>> THEN RFrame(Frame("Boolean", FALSE, <<1>>), rest)
        ELSE IF body = <<102>> THEN RFrame(Frame("Boolean", FALSE, <<0>>), rest)
        ELSE RErr("Invalid boolean", rest))

parse_double(b) ==
    LET ln == LineFrame(b)  body == ln.body  rest == ln.rest
    IN IF ~ln.ok THEN ln.res ELSE (
        LET d == ParseDouble(body)
        IN IF d.ok THEN RFrame(Frame("Double", FALSE, <<d.val>>), rest) ELSE RErr(d.msg, rest))

parse_bignumber(b) ==
    LET ln == LineFrame(b)  body == ln.body  rest == ln.rest
    IN IF ~ln.ok THEN ln.res ELSE (RFrame(Frame("BigNumber", FALSE, body), rest))

parse_bulk_error(b) ==
    LET ln == LineFrame(b)  body == ln.body  rest == ln.rest
    IN IF ~ln.ok THEN ln.res ELSE (
        LET n == ParseUnsigned(body)
        IN IF ~n.ok THEN RErr(n.msg, rest)
           ELSE IF Len(rest) < n.val + 2 THEN RErr("Incomplete", rest)
           ELSE RFrame(Frame("BulkError", FALSE, Utf8Lossy(SubSeq(rest, 1, n.val))),
                       SubSeq(rest, n.val + 3, Len(rest))))

\* splitn(2, ' '): the subtype is the text before the first space, the
\* length the text after it; unwrap() panics when there is no space.
parse_verbatim_string(b) ==
    LET ln == LineFrame(b)  body == ln.body  rest == ln.rest
    IN IF ~ln.ok THEN ln.res ELSE (
        LET sps == {i \in 1..Len(body) : body[i] = 32}
            sp == CHOOSE k \in sps : \A j \in sps : k <= j
            n == ParseUnsigned(SubSeq(body, sp + 1, Len(body)))
        IN IF sps = {} THEN RPanic("unwrap on None", rest)
           ELSE IF ~n.ok THEN RErr(n.msg, rest)
           ELSE IF Len(rest) < n.val + 2 THEN RErr("Incomplete", rest)
           ELSE RFrame(VerbatimString(SubSeq(body, 1, sp - 1), SubSeq(rest, 1, n.val)),
                       SubSeq(rest, n.val + 3, Len(rest))))

(***************************************************************************)
(* The aggregates.  Each loops over its children by calling                *)
(* FrameParser::parse on a sub-parser.                                     *)
(***************************************************************************)
RECURSIVE Parse(_), array_items(_, _, _), aggregate_items(_, _, _), map_pairs(_, _, _)

\* parse_array, the loop: the sub-parser takes the whole buffer
\* (buf.split()), and gives back what it left (buf.unsplit on the now empty
\* buffer) only after it returned a frame.
array_items(b, n, items) ==
    IF n = 0 THEN RFrame(ListF("Array", items), b)
    ELSE LET r == Parse(b)
         IN IF r.kind = "frame" THEN array_items(r.buf, n - 1, Append(items, r.frame))
            ELSE IF r.kind = "none" THEN RErr("Incomplete array item", <<>>)
            ELSE [r EXCEPT !.buf = <<>>]

parse_array(b) ==
    LET ln == LineFrame(b)  body == ln.body  rest == ln.rest
    IN IF ~ln.ok THEN ln.res ELSE (
        LET n == ParseSigned(body)
        IN IF ~n.ok THEN RErr(n.msg, rest)
           ELSE IF n.val < 0 THEN RFrame(Frame("Array", TRUE, <<>>), rest)
           ELSE array_items(rest, n.val, <<>>))

\* parse_aggregate, the loop: the sub-parser works on buf.clone(), so the
\* buffer itself keeps its bytes, and after a frame the buffer is extended
\* by one more clone of itself (buf.unsplit(FrameParser{buf: buf.clone()}.buf)).
aggregate_items(b, n, items) ==
    IF n = 0 THEN RFrame(ListF("Items", items), b)
    ELSE LET r == Parse(b)
         IN IF r.kind = "frame" THEN aggregate_items(Unsplit(b, b), n - 1, Append(items, r.frame))
            ELSE IF r.kind = "none" THEN RErr("Incomplete aggregate item", b)
            ELSE [r EXCEPT !.buf = b]

parse_aggregate(b, tag) ==
    LET l == parse_line(b)
        n == ParseSigned(Tail(l.line))
        r == aggregate_items(l.rest, n.val, <<>>)
    IN IF ~l.found THEN RErr("Incomplete", b)
       ELSE IF ~ValidUtf8(l.line) THEN RPanic("from_utf8", l.rest)
       ELSE IF ~n.ok THEN RErr(n.msg, l.rest)
       ELSE IF n.val < 0 THEN RFrame(Frame(tag, TRUE, <<>>), l.rest)
       ELSE IF r.kind = "frame" THEN RFrame(ListF(tag, r.frame.kids), r.buf)
       ELSE r

parse_set(b) == parse_aggregate(b, "Set")

parse_push(b) == parse_aggregate(b, "Push")

\* parse_map, the loop: key and value are each parsed from a clone of the
\* buffer, which is extended by a clone of itself after each of them.
map_pairs(b, n, pairs) ==
    IF n = 0 THEN RFrame(ListF("Pairs", pairs), b)
    ELSE LET k == Parse(b)
             b1 == Unsplit(b, b)
             v == Parse(b1)
             b2 == Unsplit(b1, b1)
         IN IF k.kind = "none" THEN RErr("Incomplete map key", b)
            ELSE IF k.kind # "frame" THEN [k EXCEPT !.buf = b]
            ELSE IF v.kind = "none" THEN RErr("Incomplete map value", b1)
            ELSE IF v.kind # "frame" THEN [v EXCEPT !.buf = b1]
            ELSE map_pairs(b2, n - 1, pairs \o <<k.frame, v.frame>>)

\* parse_map: the frame is a Map when the line starts with '%', and an
\* Attribute otherwise.
parse_map(b) ==
    LET l == parse_line(b)
        n == ParseSigned(Tail(l.line))
        tag == IF l.line[1] = 37 THEN "Map" ELSE "Attribute"
        r == map_pairs(l.rest, n.val, <<>>)
    IN IF ~l.found THEN RErr("Incomplete", b)
       ELSE IF ~ValidUtf8(l.line) THEN RPanic("from_utf8", l.rest)
       ELSE IF ~n.ok THEN RErr(n.msg, l.rest)
       ELSE IF n.val < 0 THEN RFrame(Frame(tag, TRUE, <<>>), l.rest)
       ELSE IF r.kind = "frame" THEN RFrame(ListF(tag, r.frame.kids), r.buf)
       ELSE r

parse_attribute(b) ==
    LET r == parse_map(b)
    IN IF r.kind = "frame" /\ r.frame.tag # "Attribute"
       THEN RErr("Expected attribute frame", r.buf)
       ELSE r

\* FrameParser::parse
Parse(b) ==
    IF b = <<>> THEN RNone(b)
    ELSE CASE b[1] = 43 -> parse_simple(b)
           [] b[1] = 45 -> parse_error(b)
           [] b[1] = 58 -> parse_integer(b)
           [] b[1] = 36 -> parse_bulk(b)
           [] b[1] = 42 -> parse_array(b)
           [] b[1] = 95 -> parse_null(b)
           [] b[1] = 35 -> parse_boolean(b)
           [] b[1] = 44 -> parse_double(b)
           [] b[1] = 40 -> parse_bignumber(b)
           [] b[1] = 33 -> parse_bulk_error(b)
           [] b[1] = 61 -> parse_verbatim_string(b)
           [] b[1] = 37 -> parse_map(b)
           [] b[1] = 126 -> parse_set(b)
           [] b[1] = 124 -> parse_attribute(b)
           [] b[1] = 62 -> parse_push(b)
           [] OTHER -> RErr("Unexpected byte", b)

(***************************************************************************)
(* The frames a client sends: the primitives, every aggregate over them,   *)
(* and aggregates nested to MaxDepth.                                      *)
(***************************************************************************)
IntF(n) == Frame("Integer", FALSE, <<n>>)
BulkF(s) == Frame("BulkString", FALSE, s)

Prims ==
    { Frame("SimpleString", FALSE, <<79, 75>>),     \* +OK
      Frame("Error", FALSE, <<69>>),                \* -E
      IntF(0), IntF(-12),
      Frame("BulkString", TRUE, <<>>),              \* $-1
      BulkF(<<>>), BulkF(<<97>>), BulkF(<<13, 10>>),
      Frame("Null", FALSE, <<>>),
      Frame("Boolean", FALSE, <<1>>),
      Frame("Double", FALSE, <<15>>),               \* ,1.5
      Frame("BigNumber", FALSE, <<49, 50>>),        \* (12
      Frame("BulkError", FALSE, <<101>>),           \* !1 e
      VerbatimString(<<116, 120, 116>>, <<97>>) }   \* =txt 1 a

SmallPrims == {IntF(0), BulkF(<<97>>)}

\* The primitives used as the only child of an aggregate.
KidPrims == SmallPrims \cup {Frame("BulkString", TRUE, <<>>), Frame("SimpleString", FALSE, <<79, 75>>)}

\* The aggregates (null, empty, one child, two children; one pair, two
\* pairs) with children from kids and their siblings from sibs.
Wrap(kids, sibs) ==
    {Frame(t, TRUE, <<>>) : t \in ListTags \cup MapTags}
    \cup {ListF(t, <<>>) : t \in ListTags \cup MapTags}
    \cup {ListF(t, <<c>>) : t \in ListTags, c \in kids}
    \cup {ListF(t, <<c, s>>) : t \in ListTags, c \in kids, s \in sibs}
    \cup {ListF(t, <<s, c>>) : t \in ListTags, c \in kids, s \in sibs}
    \cup {ListF(t, <<IntF(0), c>>) : t \in MapTags, c \in kids}
    \cup {ListF(t, <<c, s, s, c>>) : t \in MapTags, c \in kids, s \in sibs}

\* One aggregate of each shape at each depth, as the children of the next.
RECURSIVE Core(_)
Core(d) ==
    IF d = 0 THEN SmallPrims
    ELSE LET c == CHOOSE x \in Core(d - 1) : x.tag \in {"Integer", "Array"}
         IN { ListF("Array", <<c, BulkF(<<97>>)>>),
              ListF("Set", <<c>>),
              ListF("Map", <<IntF(0), c>>) }

RECURSIVE Nested(_)
Nested(d) == IF d < 2 THEN {} ELSE Wrap(Core(d - 1), {IntF(0)}) \cup Nested(d - 1)

Universe == Prims \cup Wrap(KidPrims, {BulkF(<<97>>)}) \cup Nested(MaxDepth)

\* A second frame may follow the first on the wire.
Seconds == {IntF(7)}

(***************************************************************************)
(* RedisValue (src/model/redis_value.rs) and the keyspace (src/db.rs).     *)
(* A value is [type, data] with data a sequence of byte strings: the one   *)
(* string of a String, the items of a List.  A map is a function on the    *)
(* keys of the model; Absent marks a key that is not in KV, and <<>> a key *)
(* that is not in EXP (<<d>> is the deadline d).                           *)
(***************************************************************************)
StringV(s) == [type |-> "String", data |-> <<s>>]
ListV(items) == [type |-> "List", data |-> items]
Absent == [type |-> "Absent", data |-> <<>>]

ByteKeys == {<<107>>, <<255>>}              \* the keys clients name: "k" and a byte that is no UTF-8
Vals == {<<118>>, <<119>>}                  \* "v", "w"
StrKeys == {Utf8Lossy(k) : k \in ByteKeys}  \* String::from_utf8_lossy(&key)

EmptyKV == [k \in StrKeys |-> Absent]
EmptyEXP == [k \in StrKeys |-> <<>>]

\* SystemTime::now() in milliseconds since the epoch; it advances with the
\* monotonic clock.
WallClock(t) == t + 5000

\* db::set as it would be with the value kept when the key exists
\* (HashMap::entry(..).or_insert in place of insert).
db_set_keeps_old(kv, exp, t, key, value, ex, px, nx, xx) ==
    LET k == Utf8Lossy(key)
        exists == kv[k] # Absent
    IN IF nx /\ exists THEN [kv |-> kv, exp |-> exp, stored |-> FALSE]
       ELSE IF xx /\ ~exists THEN [kv |-> kv, exp |-> exp, stored |-> FALSE]
       ELSE [kv |-> [kv EXCEPT ![k] = IF exists THEN kv[k] ELSE StringV(value)],
             exp |-> [exp EXCEPT ![k] = IF px # <<>> THEN <<t + px[1]>>
                                        ELSE IF ex # <<>> THEN <<t + ex[1] * 1000>>
                                        ELSE <<>>],
             stored |-> TRUE]

\* db::set as it would be with the NX test made after the TTL is recorded.
db_set_nx_after_ttl(kv, exp, t, key, value, ex, px, nx, xx) ==
    LET k == Utf8Lossy(key)
        exists == kv[k] # Absent
        e == [exp EXCEPT ![k] = IF px # <<>> THEN <<t + px[1]>>
                                ELSE IF ex # <<>> THEN <<t + ex[1] * 1000>>
                                ELSE <<>>]
    IN IF nx /\ exists THEN [kv |-> kv, exp |-> e, stored |-> FALSE]
       ELSE IF xx /\ ~exists THEN [kv |-> kv, exp |-> exp, stored |-> FALSE]
       ELSE [kv |-> [kv EXCEPT ![k] = StringV(value)], exp |-> e, stored |-> TRUE]

\* db::set as it would be without the XX test.
db_set_without_xx(kv, exp, t, key, value, ex, px, nx, xx) ==
    LET k == Utf8Lossy(key)
        exists == kv[k] # Absent
    IN IF nx /\ exists THEN [kv |-> kv, exp |-> exp, stored |-> FALSE]
       ELSE [kv |-> [kv EXCEPT ![k] = StringV(value)],
             exp |-> [exp EXCEPT ![k] = IF px # <<>> THEN <<t + px[1]>>
                                        ELSE IF ex # <<>> THEN <<t + ex[1] * 1000>>
                                        ELSE <<>>],
             stored |-> TRUE]

\* db::set as it would be without the exp.remove of a SET that gives no TTL.
db_set_keeps_ttl(kv, exp, t, key, value, ex, px, nx, xx) ==
    LET k == Utf8Lossy(key)
        exists == kv[k] # Absent
    IN IF nx /\ exists THEN [kv |-> kv, exp |-> exp, stored |-> FALSE]
       ELSE IF xx /\ ~exists THEN [kv |-> kv, exp |-> exp, stored |-> FALSE]
       ELSE [kv |-> [kv EXCEPT ![k] = StringV(value)],
             exp |-> [exp EXCEPT ![k] = IF px # <<>> THEN <<t + px[1]>>
                                        ELSE IF ex # <<>> THEN <<t + ex[1] * 1000>>
                                        ELSE exp[k]],
             stored |-> TRUE]

\* db::set, between taking and dropping the two write locks.  ex and px are
\* Option<u64>: <<>> or <<n>>.
db_set(kv, exp, t, key, value, ex, px, nx, xx) ==
    LET k == Utf8Lossy(key)
        exists == kv[k] # Absent
    IN IF nx /\ exists THEN [kv |-> kv, exp |-> exp, stored |-> FALSE]
       ELSE IF xx /\ ~exists THEN [kv |-> kv, exp |-> exp, stored |-> FALSE]
       ELSE [kv |-> [kv EXCEPT ![k] = StringV(value)],
             exp |-> [exp EXCEPT ![k] = IF px # <<>> THEN <<t + px[1]>>
                                        ELSE IF ex # <<>> THEN <<t + ex[1] * 1000>>
                                        ELSE <<>>],
             stored |-> TRUE]

\* db::get as it would be without the deadline test.
get_without_deadline(exp, t, k) == FALSE

\* db::get as it would be with a key expired at its deadline (>= for >).
get_expired_at_deadline(exp, t, k) == exp[k] # <<>> /\ t >= exp[k][1]

\* db::get, first lock: the key has a deadline and Instant::now() is past it.
get_expired(exp, t, k) == exp[k] # <<>> /\ t > exp[k][1]

\* db::get, second lock: the reply frame for what KV holds.
get_value(kv, k) ==
    CASE kv[k].type = "String" -> Frame("BulkString", FALSE, kv[k].data[1])
      [] kv[k].type = "List" ->
            ListF("Array", [i \in 1..Len(kv[k].data) |-> Frame("BulkString", FALSE, kv[k].data[i])])
      [] kv[k].type = "Absent" -> Frame("BulkString", TRUE, <<>>)

\* db::purge_expired_keys as it would be with kv.remove alone.
purge_kv_only(kv, exp, c) ==
    LET expired == {k \in StrKeys : exp[k] # <<>> /\ c > exp[k][1]}
    IN [kv |-> [k \in StrKeys |-> IF k \in expired THEN Absent ELSE kv[k]],
        exp |-> exp]

\* db::purge_expired_keys with `now` read as c.
purge_expired_keys(kv, exp, c) ==
    LET expired == {k \in StrKeys : exp[k] # <<>> /\ c > exp[k][1]}
    IN [kv |-> [k \in StrKeys |-> IF k \in expired THEN Absent ELSE kv[k]],
        exp |-> [k \in StrKeys |-> IF k \in expired THEN <<>> ELSE exp[k]]]

\* RdbDatabase: per key an entry [value, expiry], expiry <<>> or <<unix ms>>;
\* a key without entry has the value Absent.
NoEntry == [value |-> Absent, expiry |-> <<>>]

\* db::load_from_rdb as it would be if it skipped only the entries whose
\* expiry is before the wall clock (`<` in place of `<=`).
load_keeps_due(rdb, t, wall, clockOk) ==
    LET keep == {k \in StrKeys : /\ rdb[k] # NoEntry
                                 /\ (rdb[k].expiry = <<>> \/ rdb[k].expiry[1] >= wall)}
    IN IF ~clockOk THEN [kv |-> EmptyKV, exp |-> EmptyEXP, ok |-> FALSE]
       ELSE [kv |-> [k \in StrKeys |-> IF k \in keep THEN rdb[k].value ELSE Absent],
             exp |-> [k \in StrKeys |->
                        IF k \in keep /\ rdb[k].expiry # <<>>
                        THEN <<t + (rdb[k].expiry[1] - wall)>> ELSE <<>>],
             ok |-> TRUE]

\* db::load_from_rdb at monotonic time t and wall-clock time wall.  clockOk
\* is false when SystemTime::duration_since fails, after the maps were
\* cleared.
load_from_rdb(rdb, t, wall, clockOk) ==
    LET keep == {k \in StrKeys : /\ rdb[k] # NoEntry
                                 /\ (rdb[k].expiry = <<>> \/ rdb[k].expiry[1] > wall)}
    IN IF ~clockOk THEN [kv |-> EmptyKV, exp |-> EmptyEXP, ok |-> FALSE]
       ELSE [kv |-> [k \in StrKeys |-> IF k \in keep THEN rdb[k].value ELSE Absent],
             exp |-> [k \in StrKeys |->
                        IF k \in keep /\ rdb[k].expiry # <<>>
                        THEN <<t + (rdb[k].expiry[1] - wall)>> ELSE <<>>],
             ok |-> TRUE]

(***************************************************************************)
(* The SET and GET handlers (src/commands/default.rs).  The texts of the   *)
(* error replies, as bytes.                                                *)
(***************************************************************************)
\* "ERR wrong number of arguments for 'set'"
MsgSetArity ==
    <<69, 82, 82, 32, 119, 114, 111, 110, 103, 32, 110, 117, 109, 98,
      101, 114, 32, 111, 102, 32, 97, 114, 103, 117, 109, 101, 110, 116,
      115, 32, 102, 111, 114, 32, 39, 115, 101, 116, 39>>

\* "ERR invalid key for 'set'"
MsgSetKey ==
    <<69, 82, 82, 32, 105, 110, 118, 97, 108, 105, 100, 32, 107, 101,
      121, 32, 102, 111, 114, 32, 39, 115, 101, 116, 39>>

\* "ERR invalid value for 'set'"
MsgSetValue ==
    <<69, 82, 82, 32, 105, 110, 118, 97, 108, 105, 100, 32, 118, 97,
      108, 117, 101, 32, 102, 111, 114, 32, 39, 115, 101, 116, 39>>

\* "ERR syntax error: EX requires seconds"
MsgExMissing ==
    <<69, 82, 82, 32, 115, 121, 110, 116, 97, 120, 32, 101, 114, 114,
      111, 114, 58, 32, 69, 88, 32, 114, 101, 113, 117, 105, 114, 101,
      115, 32, 115, 101, 99, 111, 110, 100, 115>>

\* "ERR EX value must be a positive integer"
MsgExValue ==
    <<69, 82, 82, 32, 69, 88, 32, 118, 97, 108, 117, 101, 32, 109, 117,
      115, 116, 32, 98, 101, 32, 97, 32, 112, 111, 115, 105, 116, 105,
      118, 101, 32, 105, 110, 116, 101, 103, 101, 114>>

\* "ERR syntax error: PX requires milliseconds"
MsgPxMissing ==
    <<69, 82, 82, 32, 115, 121, 110, 116, 97, 120, 32, 101, 114, 114,
      111, 114, 58, 32, 80, 88, 32, 114, 101, 113, 117, 105, 114, 101,
      115, 32, 109, 105, 108, 108, 105, 115, 101, 99, 111, 110, 100,
      115>>

\* "ERR PX value must be a positive integer"
MsgPxValue ==
    <<69, 82, 82, 32, 80, 88, 32, 118, 97, 108, 117, 101, 32, 109, 117,
      115, 116, 32, 98, 101, 32, 97, 32, 112, 111, 115, 105, 116, 105,
      118, 101, 32, 105, 110, 116, 101, 103, 101, 114>>

\* "ERR syntax error in 'set' options"
MsgSetSyntax ==
    <<69, 82, 82, 32, 115, 121, 110, 116, 97, 120, 32, 101, 114, 114,
      111, 114, 32, 105, 110, 32, 39, 115, 101, 116, 39, 32, 111, 112,
      116, 105, 111, 110, 115>>

\* "ERR wrong number of arguments for 'get'"
MsgGetArity ==
    <<69, 82, 82, 32, 119, 114, 111, 110, 103, 32, 110, 117, 109, 98,
      101, 114, 32, 111, 102, 32, 97, 114, 103, 117, 109, 101, 110, 116,
      115, 32, 102, 111, 114, 32, 39, 103, 101, 116, 39>>

\* "ERR invalid key for 'get'"
MsgGetKey ==
    <<69, 82, 82, 32, 105, 110, 118, 97, 108, 105, 100, 32, 107, 101,
      121, 32, 102, 111, 114, 32, 39, 103, 101, 116, 39>>

ErrorF(msg) == Frame("Error", FALSE, msg)
OkF == Frame("SimpleString", FALSE, <<79, 75>>)     \* Frame::SimpleString("OK")
NullBulk == Frame("BulkString", TRUE, <<>>)         \* Frame::BulkString(None)

IsBulk(f) == f.tag = "BulkString" /\ ~f.null

AsciiUpper(s) == [i \in 1..Len(s) |-> IF s[i] \in 97..122 THEN s[i] - 32 ELSE s[i]]

\* opt.eq_ignore_ascii_case(name), name in upper case
IsOption(f, name) == IsBulk(f) /\ AsciiUpper(f.val) = name

OptEX == <<69, 88>>
OptPX == <<80, 88>>
OptNX == <<78, 88>>
OptXX == <<88, 88>>

\* The value after EX or PX: a bulk string that parses as a u64 above 0;
\* <<>> when it does not.
PositiveArg(f) ==
    LET n == ParseUnsigned(Utf8Lossy(f.val))
    IN IF IsBulk(f) /\ n.ok /\ n.val > 0 THEN <<n.val>> ELSE <<>>

\* default::set, the option loop from args[i] on (i counts from 1).  o holds
\* ex, px, nx, xx as read so far; o.err is <<>> or the error reply.
RECURSIVE set_options(_, _, _)
set_options(args, i, o) ==
    IF i > Len(args) THEN o
    ELSE IF IsOption(args[i], OptEX) THEN
        IF i + 1 > Len(args) THEN [o EXCEPT !.err = <<ErrorF(MsgExMissing)>>]
        ELSE IF PositiveArg(args[i + 1]) = <<>> THEN [o EXCEPT !.err = <<ErrorF(MsgExValue)>>]
        ELSE set_options(args, i + 2, [o EXCEPT !.ex = PositiveArg(args[i + 1])])
    ELSE IF IsOption(args[i], OptPX) THEN
        IF i + 1 > Len(args) THEN [o EXCEPT !.err = <<ErrorF(MsgPxMissing)>>]
        ELSE IF PositiveArg(args[i + 1]) = <<>> THEN [o EXCEPT !.err = <<ErrorF(MsgPxValue)>>]
        ELSE set_options(args, i + 2, [o EXCEPT !.px = PositiveArg(args[i + 1])])
    ELSE IF IsOption(args[i], OptNX) THEN set_options(args, i + 1, [o EXCEPT !.nx = TRUE])
    ELSE IF IsOption(args[i], OptXX) THEN set_options(args, i + 1, [o EXCEPT !.xx = TRUE])
    ELSE [o EXCEPT !.err = <<ErrorF(MsgSetSyntax)>>]

NoOptions == [ex |-> <<>>, px |-> <<>>, nx |-> FALSE, xx |-> FALSE, err |-> <<>>]

\* default::set up to the call of db::set: the error reply, or the
\* arguments db::set is called with.
set_args(args) ==
    IF Len(args) < 2 THEN [NoOptions EXCEPT !.err = <<ErrorF(MsgSetArity)>>]
    ELSE IF ~IsBulk(args[1]) THEN [NoOptions EXCEPT !.err = <<ErrorF(MsgSetKey)>>]
    ELSE IF ~IsBulk(args[2]) THEN [NoOptions EXCEPT !.err = <<ErrorF(MsgSetValue)>>]
    ELSE set_options(args, 3, NoOptions)

\* default::set, the reply after db::set returned Ok(()).
set_reply(r) == OkF

\* default::get up to the call of db::get: <<>> or the error reply.
get_args(args) ==
    IF Len(args) # 1 THEN <<ErrorF(MsgGetArity)>>
    ELSE IF ~IsBulk(args[1]) THEN <<ErrorF(MsgGetKey)>>
    ELSE <<>>

(***************************************************************************)
(* The KEYS handler (src/commands/default.rs) and                          *)
(* db::get_keys_matching_pattern.                                          *)
(***************************************************************************)
\* "ERR wrong number of arguments for 'keys' command"
MsgKeysArity ==
    <<69, 82, 82, 32, 119, 114, 111, 110, 103, 32, 110, 117, 109, 98,
      101, 114, 32, 111, 102, 32, 97, 114, 103, 117, 109, 101, 110, 116,
      115, 32, 102, 111, 114, 32, 39, 107, 101, 121, 115, 39, 32, 99,
      111, 109, 109, 97, 110, 100>>

\* "ERR invalid pattern for 'keys' command"
MsgKeysPattern ==
    <<69, 82, 82, 32, 105, 110, 118, 97, 108, 105, 100, 32, 112, 97,
      116, 116, 101, 114, 110, 32, 102, 111, 114, 32, 39, 107, 101, 121,
      115, 39, 32, 99, 111, 109, 109, 97, 110, 100>>

\* "ERR invalid pattern type for 'keys' command"
MsgKeysType ==
    <<69, 82, 82, 32, 105, 110, 118, 97, 108, 105, 100, 32, 112, 97,
      116, 116, 101, 114, 110, 32, 116, 121, 112, 101, 32, 102, 111, 114,
      32, 39, 107, 101, 121, 115, 39, 32, 99, 111, 109, 109, 97, 110,
      100>>

Star == <<42>>      \* the pattern "*"

\* glob::Pattern::matches for a pattern of literal bytes and `*`.
RECURSIVE glob_matches(_, _)
glob_matches(p, s) ==
    IF p = <<>> THEN s = <<>>
    ELSE IF Head(p) = 42
         THEN glob_matches(Tail(p), s) \/ (s # <<>> /\ glob_matches(p, Tail(s)))
    ELSE s # <<>> /\ Head(s) = Head(p) /\ glob_matches(Tail(p), Tail(s))

\* db::get_keys_matching_pattern: the keys of KV that match, as a set; the
\* order in which the HashMap yields them is not fixed.
get_keys_matching_pattern(kv, pattern) ==
    IF pattern = Star THEN {k \in StrKeys : kv[k] # Absent}
    ELSE {k \in StrKeys : kv[k] # Absent /\ glob_matches(pattern, k)}

\* filter_map of the arguments of a KEYS with more than one argument.
RECURSIVE keys_names(_)
keys_names(args) ==
    IF args = <<>> THEN <<>>
    ELSE IF IsBulk(Head(args)) THEN <<Utf8Lossy(Head(args).val)>> \o keys_names(Tail(args))
    ELSE IF Head(args).tag = "SimpleString" THEN <<Head(args).val>> \o keys_names(Tail(args))
    ELSE keys_names(Tail(args))

\* default::keys up to the call of db::get_keys_matching_pattern: the error
\* reply, or the pattern (one argument), or the names it answers with
\* (more than one argument).
keys_args(args) ==
    IF Len(args) = 0
    THEN [err |-> <<ErrorF(MsgKeysArity)>>, pattern |-> <<>>, names |-> <<>>]
    ELSE IF Len(args) = 1
    THEN IF IsBulk(args[1])
         THEN [err |-> <<>>, pattern |-> Utf8Lossy(args[1].val), names |-> <<>>]
         ELSE IF args[1].tag = "BulkString"
         THEN [err |-> <<ErrorF(MsgKeysPattern)>>, pattern |-> <<>>, names |-> <<>>]
         ELSE IF args[1].tag = "SimpleString"
         THEN [err |-> <<>>, pattern |-> args[1].val, names |-> <<>>]
         ELSE [err |-> <<ErrorF(MsgKeysType)>>, pattern |-> <<>>, names |-> <<>>]
    ELSE [err |-> <<>>, pattern |-> <<>>, names |-> keys_names(args)]

\* default::keys, the reply for the keys in the order the map gave them.
keys_reply(names) ==
    ListF("Array", [i \in 1..Len(names) |-> Frame("BulkString", FALSE, names[i])])

(***************************************************************************)
(* The commands and snapshots of the model.                                *)
(***************************************************************************)
Opt(name) == Frame("BulkString", FALSE, name)

\* Option lists the handler accepts.
GoodOpts ==
    { <<>>,
      <<Opt(OptNX)>>,                                               \* NX
      <<Opt(OptXX)>>,                                               \* XX
      <<Opt(OptNX), Opt(OptXX)>>,                                   \* NX XX
      <<Opt(OptEX), Opt(<<49>>)>>,                                  \* EX 1
      <<Opt(OptPX), Opt(<<49>>)>>,                                  \* PX 1
      <<Opt(OptEX), Opt(<<49>>), Opt(OptPX), Opt(<<49>>)>>,         \* EX 1 PX 1
      <<Opt(OptNX), Opt(OptPX), Opt(<<49>>)>>,                      \* NX PX 1
      <<Opt(OptXX), Opt(OptPX), Opt(<<49>>)>> }                     \* XX PX 1

\* Option lists the handler rejects.
BadOpts ==
    { <<Opt(OptEX), Opt(<<48>>)>>,                                  \* EX 0
      <<Opt(OptPX)>>,                                               \* PX
      <<Opt(OptNX), Opt(<<66, 65, 68>>)>> }                         \* NX BAD

SetArgLists ==
    {<<Opt(<<107>>), Opt(<<118>>)>> \o o : o \in GoodOpts}
    \cup {<<Opt(<<107>>), Opt(<<119>>)>> \o o : o \in {<<>>, <<Opt(OptNX)>>}}
    \cup {<<Opt(<<255>>), Opt(<<118>>)>>}
    \cup {<<Opt(<<107>>), Opt(<<118>>)>> \o o : o \in BadOpts}
    \cup {<<Opt(<<107>>)>>, <<IntF(0), Opt(<<118>>)>>, <<Opt(<<107>>), NullBulk>>}

KeysArgLists ==
    {<<Opt(Star)>>, <<Opt(<<107>>)>>, <<>>, <<Opt(<<107>>), Opt(<<120>>)>>}

GetArgLists == {<<Opt(k)>> : k \in ByteKeys} \cup {<<>>, <<IntF(0)>>}

\* Snapshots to load: an empty one, and one with a List that expires at
\* wall-clock 5002 beside a String that expires at 5001.
RdbDatabases ==
    { [k \in StrKeys |-> NoEntry],
      [k \in StrKeys |-> IF k = Utf8Lossy(<<107>>)
                         THEN [value |-> ListV(<<<<105>>, <<106>>>>), expiry |-> <<5002>>]
                         ELSE [value |-> StringV(<<118>>), expiry |-> <<5001>>]] }

\* Snapshots for the load alone: per key no entry, a String without expiry,
\* a List that expires at wall-clock 5001, or a String that expires at 5002.
LoadEntries ==
    { NoEntry,
      [value |-> StringV(<<118>>), expiry |-> <<>>],
      [value |-> ListV(<<<<105>>, <<106>>>>), expiry |-> <<5001>>],
      [value |-> StringV(<<119>>), expiry |-> <<5002>>] }

LoadDatabases == [StrKeys -> LoadEntries]

(***************************************************************************)
(* The keyspace under its callers.  Every writer changes the maps while it *)
(* holds both write locks, so its body is one step.  db::get takes the     *)
(* read lock of EXP, drops it, and then takes the read lock of KV: two     *)
(* steps, with any writer in between.                                      *)
(*                                                                         *)
(* `last` describes the command that completed last: op, args, reply;   *)
(* for a SET: existed (the key was in KV before), hadTtl (the key was in   *)
(* EXP before) and stored (db::set inserted the value); for a GET: late (the key had a deadline and the    *)
(* clock was past it when the GET read the clock), fresh (the value of a   *)
(* plain SET of the key still in force when the GET began) and dirty (a    *)
(* writer touched the key between the GET's two locks); for a KEYS: live   *)
(* (the keys that were in KV and whose deadline, if any, had not passed).  *)
(***************************************************************************)
NoPend == [busy |-> FALSE, args |-> <<>>, late |-> FALSE, fresh |-> <<>>, dirty |-> FALSE]

Done(op, args, reply) ==
    [op |-> op, args |-> args, reply |-> reply, existed |-> FALSE, hadTtl |-> FALSE,
     stored |-> FALSE, late |-> FALSE, fresh |-> <<>>, dirty |-> FALSE, live |-> {}]

KeyInit ==
    /\ KV = EmptyKV
    /\ EXP = EmptyEXP
    /\ now = 0
    /\ pend = NoPend
    /\ last = Done("none", <<>>, NoFrame)
    /\ fresh = [k \in StrKeys |-> <<>>]

\* A writer touched the keys ks: a db::get in flight on one of them is no
\* longer undisturbed.
Disturb(ks) == IF pend.busy /\ Utf8Lossy(pend.args[1].val) \in ks THEN [pend EXCEPT !.dirty = TRUE] ELSE pend

\* The deadline of k has passed.
Late(k) == EXP[k] # <<>> /\ now > EXP[k][1]

\* default::set
SetCmd(args) ==
    LET p == set_args(args)
        k == Utf8Lossy(args[1].val)
        r == db_set(KV, EXP, now, args[1].val, args[2].val, p.ex, p.px, p.nx, p.xx)
    IN IF p.err # <<>>
       THEN /\ last' = Done("set", args, p.err[1])
            /\ UNCHANGED <<KV, EXP, now, pend, fresh>>
       ELSE /\ KV' = r.kv
            /\ EXP' = r.exp
            /\ last' = [Done("set", args, set_reply(r))
                          EXCEPT !.existed = KV[k] # Absent, !.hadTtl = EXP[k] # <<>>,
                                 !.stored = r.stored]
            /\ fresh' = [fresh EXCEPT ![k] = IF ~p.nx /\ ~p.xx THEN <<args[2].val>> ELSE <<>>]
            /\ pend' = Disturb({k})
            /\ UNCHANGED now

\* default::get and db::get up to the release of the read lock of EXP
GetStart(args) ==
    LET e == get_args(args)
        k == Utf8Lossy(args[1].val)
    IN /\ ~pend.busy
       /\ IF e # <<>> THEN /\ last' = Done("get", args, e[1])
                           /\ UNCHANGED pend
          ELSE IF get_expired(EXP, now, k)
          THEN /\ last' = [Done("get", args, NullBulk)
                             EXCEPT !.late = Late(k), !.fresh = fresh[k]]
               /\ UNCHANGED pend
          ELSE /\ pend' = [busy |-> TRUE, args |-> args, late |-> Late(k),
                           fresh |-> fresh[k], dirty |-> FALSE]
               /\ UNCHANGED last
       /\ UNCHANGED <<KV, EXP, now, fresh>>

\* db::get under the read lock of KV
GetFinish ==
    /\ pend.busy
    /\ last' = [Done("get", pend.args, get_value(KV, Utf8Lossy(pend.args[1].val)))
                  EXCEPT !.late = pend.late, !.fresh = pend.fresh, !.dirty = pend.dirty]
    /\ pend' = NoPend
    /\ UNCHANGED <<KV, EXP, now, fresh>>

\* The orders in which a HashMap can yield the keys S.
Orders(S) ==
    {f \in [1..Cardinality(S) -> S] : \A i, j \in 1..Cardinality(S) : f[i] = f[j] => i = j}

\* default::keys
KeysCmd(args) ==
    LET p == keys_args(args)
        alive == {k \in StrKeys : KV[k] # Absent /\ ~Late(k)}
    IN /\ IF p.err # <<>> THEN last' = Done("keys", args, p.err[1])
          ELSE IF Len(args) = 1
          THEN \E names \in Orders(get_keys_matching_pattern(KV, p.pattern)) :
                  last' = [Done("keys", args, keys_reply(names)) EXCEPT !.live = alive]
          ELSE last' = [Done("keys", args, keys_reply(p.names)) EXCEPT !.live = alive]
       /\ UNCHANGED <<KV, EXP, now, pend, fresh>>

\* db::purge_expired_keys: it reads the clock (c) before it waits for the
\* write locks.
Purge ==
    \E c \in 0..now :
        LET r == purge_expired_keys(KV, EXP, c)
            gone == {k \in StrKeys : r.kv[k] # KV[k] \/ r.exp[k] # EXP[k]}
        IN /\ KV' = r.kv
           /\ EXP' = r.exp
           /\ last' = Done("purge", <<>>, NoFrame)
           /\ fresh' = [k \in StrKeys |-> IF k \in gone THEN <<>> ELSE fresh[k]]
           /\ pend' = Disturb(gone)
           /\ UNCHANGED now

\* db::load_from_rdb
Load(rdb, clockOk) ==
    LET r == load_from_rdb(rdb, now, WallClock(now), clockOk)
    IN /\ KV' = r.kv
       /\ EXP' = r.exp
       /\ last' = Done("load", <<>>, IF r.ok THEN OkF ELSE NoFrame)
       /\ fresh' = [k \in StrKeys |-> <<>>]
       /\ pend' = Disturb(StrKeys)
       /\ UNCHANGED now

\* Time passes.
Tick ==
    /\ now < MaxTime
    /\ now' = now + 1
    /\ UNCHANGED <<KV, EXP, pend, last, fresh>>

(***************************************************************************)
(* The keyspace under its locks.  KV and EXP are tokio RwLocks: each task  *)
(* below is one call of db::set, db::get, db::purge_expired_keys,          *)
(* db::load_from_rdb or rdb::save, and takes one step per lock             *)
(* acquisition and one per body.  A lock is the record [w, r]: w is <<>>   *)
(* or <<task>>, the holder of the write guard; r is the set of tasks that  *)
(* hold a read guard.                                                      *)
(***************************************************************************)
Tasks == {"c1", "c2", "c3"}

FreeLock == [w |-> <<>>, r |-> {}]

\* RwLock::write as it would be without exclusion of other writers.
write_without_exclusion(lock) == lock.r = {}

\* RwLock::write as it would be if read guards did not exclude it.
write_ignoring_readers(lock) == lock.w = <<>>

\* RwLock::write().await returns: no other guard is held.
CanWrite(lock) == lock.w = <<>> /\ lock.r = {}

\* RwLock::read().await returns: no write guard is held.
CanRead(lock) == lock.w = <<>>

\* The commands a connection issues.
CmdSet(key, value, px) == [op |-> "set", key |-> key, val |-> value, px |-> px]
CmdOf(op) == [op |-> op, key |-> <<>>, val |-> <<>>, px |-> <<>>]

Menu(t) ==
    CASE t = "c1" -> {CmdSet(<<107>>, <<118>>, <<>>), CmdSet(<<107>>, <<118>>, <<1>>), CmdOf("purge")}
      [] t = "c2" -> {CmdSet(<<107>>, <<119>>, <<>>), CmdSet(<<255>>, <<119>>, <<1>>), CmdOf("load")}
      [] t = "c3" -> {[CmdOf("get") EXCEPT !.key = <<107>>], CmdOf("save")}

Writers == {"set", "purge", "save", "load"}

\* One record written by rdb::save for the key k at monotonic time t, the
\* wall clock having been read as wall: the value of the key, the 0xFC
\* stamp when the key has a deadline later than t, and (history) the slot
\* of EXP and the time the record was made from.
save_record(kv, exp, t, wall, k) ==
    [key |-> k,
     value |-> kv[k],
     expiry |-> IF exp[k] # <<>> /\ exp[k][1] > t THEN <<wall + (exp[k][1] - t)>> ELSE <<>>,
     slot |-> exp[k],
     at |-> t]

IdleTask == [op |-> "none", pc |-> "idle", key |-> <<>>, val |-> <<>>, px |-> <<>>,
             t0 |-> <<>>, wall |-> <<>>, todo |-> <<>>, recs |-> <<>>,
             reply |-> NoFrame, quiet |-> FALSE, dirty |-> FALSE, seen |-> <<>>, runs |-> 0]

LockInit ==
    /\ task = [t \in Tasks |-> IdleTask]
    /\ kvLock = FreeLock
    /\ expLock = FreeLock
    /\ taken = [k \in StrKeys |-> <<>>]
    /\ written = [k \in StrKeys |-> {}]

\* The keyspace after SET k v and SET <255> w PX 1, both at time 0.
TwoKeys ==
    LET one == db_set(EmptyKV, EmptyEXP, 0, <<107>>, <<118>>, <<>>, <<>>, FALSE, FALSE)
    IN db_set(one.kv, one.exp, 0, <<255>>, <<119>>, <<>>, <<1>>, FALSE, FALSE)

\* The history that goes with a keyspace: the values its Strings were set to.
WrittenIn(kv) == [k \in StrKeys |-> IF kv[k].type = "String" THEN {kv[k].data[1]} ELSE {}]

InFlight(t) == task[t].pc # "idle"

\* The task t returns with the reply f.
Return(t, f) ==
    IF task[t].op \in {"get", "save"}
    THEN [task[t] EXCEPT !.pc = "idle", !.reply = f, !.runs = @ + 1, !.wall = <<>>]
    ELSE [IdleTask EXCEPT !.runs = task[t].runs + 1]

\* A writer changed the keys ks: the db::get calls that stand between
\* their two reads of these keys are no longer undisturbed.
Touch(tk, ks) ==
    [u \in Tasks |-> IF tk[u].op = "get" /\ tk[u].pc = "get_kv" /\ Utf8Lossy(tk[u].key) \in ks
                     THEN [tk[u] EXCEPT !.dirty = TRUE] ELSE tk[u]]

\* A connection issues a command.
Start(t, c) ==
    /\ ~InFlight(t)
    /\ task[t].runs < MaxRuns
    /\ LET first == CASE c.op = "set" -> "set_kv"
                      [] c.op = "get" -> "get_exp"
                      [] c.op = "load" -> "load_kv"
                      [] OTHER -> "purge_now"
           mine == [IdleTask EXCEPT !.op = c.op, !.pc = first, !.key = c.key, !.val = c.val,
                                    !.px = c.px, !.runs = task[t].runs,
                                    !.quiet = \A u \in Tasks : ~(InFlight(u) /\ task[u].op \in Writers),
                                    !.seen = IF c.op = "get" THEN taken[Utf8Lossy(c.key)] ELSE <<>>]
       IN task' = [u \in Tasks |->
                     IF u = t THEN mine
                     ELSE IF c.op \in Writers /\ task[u].op = "get" /\ InFlight(u)
                          THEN [task[u] EXCEPT !.quiet = FALSE]
                          ELSE task[u]]
    /\ UNCHANGED <<KV, EXP, now, kvLock, expLock, taken, written>>

\* db::set: KV.write().await
SetKv(t) ==
    /\ task[t].pc = "set_kv"
    /\ CanWrite(kvLock)
    /\ kvLock' = [kvLock EXCEPT !.w = <<t>>]
    /\ task' = [task EXCEPT ![t].pc = "set_exp"]
    /\ taken' = [taken EXCEPT ![Utf8Lossy(task[t].key)] =
                    IF task[t].px = <<>> THEN <<task[t].val>> ELSE <<>>]
    /\ UNCHANGED <<KV, EXP, now, expLock, written>>

\* db::set: EXP.write().await
SetExp(t) ==
    /\ task[t].pc = "set_exp"
    /\ CanWrite(expLock)
    /\ expLock' = [expLock EXCEPT !.w = <<t>>]
    /\ task' = [task EXCEPT ![t].pc = "set_body"]
    /\ UNCHANGED <<KV, EXP, now, kvLock, taken, written>>

\* db::set: the body under both write guards, which are dropped on return.
SetBody(t) ==
    /\ task[t].pc = "set_body"
    /\ LET r == db_set(KV, EXP, now, task[t].key, task[t].val, <<>>, task[t].px, FALSE, FALSE)
           k == Utf8Lossy(task[t].key)
       IN /\ KV' = r.kv
          /\ EXP' = r.exp
          /\ written' = [written EXCEPT ![k] = @ \cup {task[t].val}]
          /\ task' = Touch([task EXCEPT ![t] = Return(t, OkF)], {k})
    /\ kvLock' = [kvLock EXCEPT !.w = <<>>]
    /\ expLock' = [expLock EXCEPT !.w = <<>>]
    /\ UNCHANGED <<now, taken>>

\* db::get: EXP.read().await and the deadline test; the guard is dropped.
GetExp(t) ==
    /\ task[t].pc = "get_exp"
    /\ CanRead(expLock)
    /\ task' = IF get_expired(EXP, now, Utf8Lossy(task[t].key))
               THEN [task EXCEPT ![t] = [Return(t, NullBulk) EXCEPT !.t0 = <<now>>]]
               ELSE [task EXCEPT ![t].pc = "get_kv", ![t].t0 = <<now>>]
    /\ UNCHANGED <<KV, EXP, now, kvLock, expLock, taken, written>>

\* db::get: KV.read().await and the lookup.
GetKv(t) ==
    /\ task[t].pc = "get_kv"
    /\ CanRead(kvLock)
    /\ task' = [task EXCEPT ![t] = Return(t, get_value(KV, Utf8Lossy(task[t].key)))]
    /\ UNCHANGED <<KV, EXP, now, kvLock, expLock, taken, written>>

\* db::purge_expired_keys: let now = Instant::now()
PurgeNow(t) ==
    /\ task[t].pc = "purge_now"
    /\ task' = [task EXCEPT ![t].pc = "purge_exp", ![t].t0 = <<now>>]
    /\ UNCHANGED <<KV, EXP, now, kvLock, expLock, taken, written>>

\* db::purge_expired_keys: EXP.write().await
PurgeExp(t) ==
    /\ task[t].pc = "purge_exp"
    /\ CanWrite(expLock)
    /\ expLock' = [expLock EXCEPT !.w = <<t>>]
    /\ task' = [task EXCEPT ![t].pc = "purge_kv"]
    /\ UNCHANGED <<KV, EXP, now, kvLock, taken, written>>

\* db::purge_expired_keys: KV.write().await
PurgeKv(t) ==
    /\ task[t].pc = "purge_kv"
    /\ CanWrite(kvLock)
    /\ kvLock' = [kvLock EXCEPT !.w = <<t>>]
    /\ task' = [task EXCEPT ![t].pc = "purge_body"]
    /\ UNCHANGED <<KV, EXP, now, expLock, taken, written>>

\* db::purge_expired_keys: the removals; rdb::save goes on after them.
PurgeBody(t) ==
    /\ task[t].pc = "purge_body"
    /\ LET r == purge_expired_keys(KV, EXP, task[t].t0[1])
           gone == {k \in StrKeys : r.kv[k] # KV[k] \/ r.exp[k] # EXP[k]}
       IN /\ KV' = r.kv
          /\ EXP' = r.exp
          /\ taken' = [k \in StrKeys |-> IF k \in gone THEN <<>> ELSE taken[k]]
          /\ task' = Touch([task EXCEPT ![t] = IF task[t].op = "save"
                                               THEN [task[t] EXCEPT !.pc = "save_clock"]
                                               ELSE Return(t, NoFrame)], gone)
    /\ kvLock' = [kvLock EXCEPT !.w = <<>>]
    /\ expLock' = [expLock EXCEPT !.w = <<>>]
    /\ UNCHANGED <<now, written>>

\* rdb::save: the temporary file is created and SystemTime::now() is read.
SaveClock(t) ==
    /\ task[t].pc = "save_clock"
    /\ task' = [task EXCEPT ![t].pc = "save_kv", ![t].wall = <<WallClock(now)>>]
    /\ UNCHANGED <<KV, EXP, now, kvLock, expLock, taken, written>>

\* rdb::save: KV.read().await
SaveKv(t) ==
    /\ task[t].pc = "save_kv"
    /\ CanRead(kvLock)
    /\ kvLock' = [kvLock EXCEPT !.r = @ \cup {t}]
    /\ task' = [task EXCEPT ![t].pc = "save_exp"]
    /\ UNCHANGED <<KV, EXP, now, expLock, taken, written>>

\* rdb::save: EXP.read().await; the iteration over KV starts, in the order
\* of the HashMap.
SaveExp(t) ==
    /\ task[t].pc = "save_exp"
    /\ CanRead(expLock)
    /\ expLock' = [expLock EXCEPT !.r = @ \cup {t}]
    /\ \E order \in Orders({k \in StrKeys : KV[k] # Absent}) :
          task' = [task EXCEPT ![t].pc = "save_iter", ![t].todo = order]
    /\ UNCHANGED <<KV, EXP, now, kvLock, taken, written>>

\* rdb::save: one turn of the loop over KV.
SaveIter(t) ==
    /\ task[t].pc = "save_iter"
    /\ task[t].todo # <<>>
    /\ task' = [task EXCEPT ![t].todo = Tail(@),
                            ![t].recs = Append(@, save_record(KV, EXP, now, task[t].wall[1],
                                                              Head(task[t].todo)))]
    /\ UNCHANGED <<KV, EXP, now, kvLock, expLock, taken, written>>

\* rdb::save: the file is written and renamed; both read guards are dropped.
SaveEnd(t) ==
    /\ task[t].pc = "save_iter"
    /\ task[t].todo = <<>>
    /\ task' = [task EXCEPT ![t] = Return(t, OkF)]
    /\ kvLock' = [kvLock EXCEPT !.r = @ \ {t}]
    /\ expLock' = [expLock EXCEPT !.r = @ \ {t}]
    /\ UNCHANGED <<KV, EXP, now, taken, written>>

\* db::load_from_rdb: KV.write().await
LoadKv(t) ==
    /\ task[t].pc = "load_kv"
    /\ CanWrite(kvLock)
    /\ kvLock' = [kvLock EXCEPT !.w = <<t>>]
    /\ task' = [task EXCEPT ![t].pc = "load_exp"]
    /\ UNCHANGED <<KV, EXP, now, expLock, taken, written>>

\* db::load_from_rdb: EXP.write().await
LoadExp(t) ==
    /\ task[t].pc = "load_exp"
    /\ CanWrite(expLock)
    /\ expLock' = [expLock EXCEPT !.w = <<t>>]
    /\ task' = [task EXCEPT ![t].pc = "load_body"]
    /\ UNCHANGED <<KV, EXP, now, kvLock, taken, written>>

\* db::load_from_rdb: the maps are cleared and filled from the snapshot.
LoadBody(t, rdb) ==
    /\ task[t].pc = "load_body"
    /\ LET r == load_from_rdb(rdb, now, WallClock(now), TRUE)
       IN /\ KV' = r.kv
          /\ EXP' = r.exp
          /\ task' = Touch([task EXCEPT ![t] = Return(t, NoFrame)], StrKeys)
    /\ taken' = [k \in StrKeys |-> <<>>]
    /\ kvLock' = [kvLock EXCEPT !.w = <<>>]
    /\ expLock' = [expLock EXCEPT !.w = <<>>]
    /\ UNCHANGED <<now, written>>

\* Time passes.
TickLocks ==
    /\ now < MaxTime
    /\ now' = now + 1
    /\ UNCHANGED <<KV, EXP, task, kvLock, expLock, taken, written>>

(***************************************************************************)
(* The snapshot file (src/rdb.rs).  A file is the record [exists, data,    *)
(* sum]: data are the bytes before the 8-byte trailer, and sum is <<>>     *)
(* when the file has no trailer and <<b>> when its trailer is crc64 of the *)
(* bytes b.  The digest is kept as the bytes it was computed over: two     *)
(* trailers are equal exactly when they were computed over the same bytes. *)
(***************************************************************************)
NoFile == [exists |-> FALSE, data |-> <<>>, sum |-> <<>>]
FileOf(data, summed) == [exists |-> TRUE, data |-> data, sum |-> <<summed>>]

Magic == <<82, 69, 68, 73, 83>>         \* b"REDIS"
VersionRead == <<48, 48, 49, 49>>       \* parse: version != [48, 48, 49, 49]
VersionWritten == <<0, 0, 0, 11>>       \* save: extend_from_slice(&[0, 0, 0, 11])

\* u32::from_le_bytes and u64::from_le_bytes.  A value of 2^31 or more is
\* read as 2^31 - 1: both are more than any file of the model holds.
FromLE(b) ==
    LET byte(i) == IF i <= Len(b) THEN b[i] ELSE 0
    IN IF byte(4) >= 128 \/ \E i \in 5..Len(b) : b[i] # 0 THEN 2147483647
       ELSE byte(1) + 256 * byte(2) + 65536 * byte(3) + 16777216 * byte(4)

\* to_le_bytes in w bytes.
ToLE(n, w) == [i \in 1..w |-> IF i > 4 THEN 0 ELSE (n \div (256 ^ (i - 1))) % 256]

\* The seconds of 0xFD taken for milliseconds as they are.
millis_unscaled(seconds) == seconds

\* expiry_seconds * 1000, with the same ceiling.
Millis(seconds) == IF seconds > 2147483 THEN 2147483647 ELSE seconds * 1000

\* i8, i16 and i32::from_le_bytes.
SignedLE(b) ==
    LET w == Len(b)
        top == IF b[w] >= 128 THEN b[w] - 256 ELSE b[w]
    IN FromLE(SubSeq(b, 1, w - 1)) + top * (256 ^ (w - 1))

\* What a reader returns: a number n or bytes, the position of the next
\* byte to read, and file_bytes, the bytes that go into the checksum.  A
\* reader takes the position and file_bytes it starts from through a
\* singleton set, which makes them values that are computed once.
RdErr == [ok |-> FALSE, n |-> 0, bytes |-> <<>>, pos |-> 0, fb |-> <<>>]
RdNum(n, pos, fb) == [ok |-> TRUE, n |-> n, bytes |-> <<>>, pos |-> pos, fb |-> fb]
RdBytes(b, pos, fb) == [ok |-> TRUE, n |-> 0, bytes |-> b, pos |-> pos, fb |-> fb]

\* reader.read_exact of n bytes at pos succeeds.
Has(f, pos, n) == pos + n - 1 <= Len(f)

\* read_rdb_length
RECURSIVE read_rdb_length(_, _, _)
read_rdb_length(f, start, collected) ==
    CHOOSE res \in {
        IF ~Has(f, pos, 1) THEN RdErr
        ELSE CHOOSE res1 \in {
                CASE first \div 64 = 0 -> RdNum(first % 64, pos + 1, fb1)
                  [] first \div 64 = 1 ->
                        IF Has(f, pos + 1, 1)
                        THEN RdNum((first % 64) * 256 + f[pos + 1], pos + 2, Append(fb1, f[pos + 1]))
                        ELSE RdErr
                  [] first \div 64 = 2 ->
                        IF Has(f, pos + 1, 4)
                        THEN RdNum(FromLE(SubSeq(f, pos + 1, pos + 4)), pos + 5,
                                   fb1 \o SubSeq(f, pos + 1, pos + 4))
                        ELSE RdErr
                  [] first \in {192, 193, 194} ->
                        \* 8, 16 and 32-bit integer: 1, 2 and 4 bytes, returned as the length
                        CHOOSE res2 \in {
                            IF Has(f, pos + 1, n) THEN RdNum(n, pos + 1 + n, fb1 \o SubSeq(f, pos + 1, pos + n))
                            ELSE RdErr
                            : n \in {IF first = 192 THEN 1 ELSE IF first = 193 THEN 2 ELSE 4}} : TRUE
                  [] first = 195 ->
                        CHOOSE res2 \in {
                            IF ~c.ok THEN RdErr
                            ELSE CHOOSE res3 \in {
                                    IF ~u.ok THEN RdErr ELSE RdNum(c.n, u.pos, u.fb)
                                    : u \in {read_rdb_length(f, c.pos, c.fb)}} : TRUE
                            : c \in {read_rdb_length(f, pos + 1, fb1)}} : TRUE
                  [] OTHER -> RdErr
                : first \in {f[pos]}, fb1 \in {Append(fb, f[pos])}} : TRUE
        : pos \in {start}, fb \in {collected}} : TRUE

\* lzf_decompress_fallback: the copy loop of a back reference.
RECURSIVE lzf_copy(_, _, _, _)
lzf_copy(output, start_pos, j, back_ref_len) ==
    IF j >= back_ref_len \/ start_pos + j >= Len(output) THEN output
    ELSE lzf_copy(Append(output, output[start_pos + j + 1]), start_pos, j + 1, back_ref_len)

\* lzf_decompress_fallback: the loop, with i bytes of the input consumed.
RECURSIVE lzf_loop(_, _, _)
lzf_loop(compressed, i, output) ==
    IF i >= Len(compressed) THEN [ok |-> TRUE, data |-> output]
    ELSE LET ctrl == compressed[i + 1]
             i1 == i + 1
             len == ctrl \div 32
             i2 == IF len = 7 THEN i1 + 1 ELSE i1
         IN IF ctrl < 32
            THEN IF i1 + ctrl + 1 > Len(compressed) THEN [ok |-> FALSE, data |-> <<>>]
                 ELSE lzf_loop(compressed, i1 + ctrl + 1,
                               output \o SubSeq(compressed, i1 + 1, i1 + ctrl + 1))
            ELSE IF len = 7 /\ i1 >= Len(compressed) THEN [ok |-> FALSE, data |-> <<>>]
            ELSE IF i2 + 1 >= Len(compressed) THEN [ok |-> FALSE, data |-> <<>>]
            ELSE LET offset_bytes == (ctrl % 32) * 256 + compressed[i2 + 1]
                     back_ref_offset == offset_bytes + 1
                 IN IF back_ref_offset > Len(output) THEN [ok |-> FALSE, data |-> <<>>]
                    ELSE lzf_loop(compressed, i2 + 1,
                                  lzf_copy(output, Len(output) - back_ref_offset, 0, len + 2))

lzf_decompress_fallback(compressed) == lzf_loop(compressed, 0, <<>>)

\* read_string_with_encoding.  For a plain length the first byte is taken
\* from the reader, removed again from file_bytes, and read_rdb_length goes
\* on from the byte after it.
read_string_with_encoding(f, start, collected) ==
    CHOOSE res \in {
        IF ~Has(f, pos, 1) THEN RdErr
        ELSE CHOOSE res1 \in {
                CASE first \div 64 \in {0, 1, 2} ->
                        CHOOSE res2 \in {
                            IF ~r.ok THEN RdErr
                            ELSE IF ~Has(f, r.pos, r.n) THEN RdErr
                            ELSE RdBytes(SubSeq(f, r.pos, r.pos + r.n - 1), r.pos + r.n,
                                         r.fb \o SubSeq(f, r.pos, r.pos + r.n - 1))
                            : r \in {read_rdb_length(f, pos + 1, fb)}} : TRUE
                  [] first \in {192, 193, 194} ->
                        \* 8, 16 and 32-bit integer, as its decimal text
                        CHOOSE res2 \in {
                            IF Has(f, pos + 1, n)
                            THEN RdBytes(FmtInt(SignedLE(SubSeq(f, pos + 1, pos + n))), pos + 1 + n,
                                         fb1 \o SubSeq(f, pos + 1, pos + n))
                            ELSE RdErr
                            : n \in {IF first = 192 THEN 1 ELSE IF first = 193 THEN 2 ELSE 4}} : TRUE
                  [] first = 195 ->
                        CHOOSE res2 \in {
                            IF ~c.ok THEN RdErr
                            ELSE CHOOSE res3 \in {
                                    IF ~u.ok THEN RdErr
                                    ELSE IF ~Has(f, u.pos, c.n) THEN RdErr
                                    ELSE CHOOSE res4 \in {
                                            IF z.ok THEN RdBytes(z.data, u.pos + c.n,
                                                                 u.fb \o SubSeq(f, u.pos, u.pos + c.n - 1))
                                            ELSE RdErr
                                            : z \in {lzf_decompress_fallback(SubSeq(f, u.pos, u.pos + c.n - 1))}} : TRUE
                                    : u \in {read_rdb_length(f, c.pos, c.fb)}} : TRUE
                            : c \in {read_rdb_length(f, pos + 1, fb1)}} : TRUE
                  [] OTHER -> RdErr
                : first \in {f[pos]}, fb1 \in {Append(fb, f[pos])}} : TRUE
        : pos \in {start}, fb \in {collected}} : TRUE

\* read_length_prefixed_string
read_length_prefixed_string(f, pos, fb) ==
    CHOOSE res \in
        {IF r.ok THEN [r EXCEPT !.bytes = CHOOSE t \in {Utf8Lossy(b) : b \in {r.bytes}} : TRUE] ELSE r
            : r \in {read_string_with_encoding(f, pos, fb)}} : TRUE

\* The loops that read the items of a List or a Set.  (The singleton set
\* makes the string just read a value that is computed once.)
RECURSIVE read_items(_, _, _, _, _)
read_items(f, pos, fb, len, items) ==
    IF len = 0 THEN [ok |-> TRUE, items |-> items, pos |-> pos, fb |-> fb]
    ELSE CHOOSE res \in
            {IF ~r.ok THEN [ok |-> FALSE, items |-> <<>>, pos |-> 0, fb |-> <<>>]
             ELSE read_items(f, r.pos, r.fb, len - 1, Append(items, r.bytes))
                : r \in {read_string_with_encoding(f, pos, fb)}} : TRUE

\* The value of a List or Set record: the count, then the items.
read_list(f, pos, fb) ==
    CHOOSE res \in {
        IF ~n.ok THEN [ok |-> FALSE, items |-> <<>>, pos |-> 0, fb |-> <<>>]
        ELSE IF ~Has(f, n.pos, n.n) THEN [ok |-> FALSE, items |-> <<>>, pos |-> 0, fb |-> <<>>]
        ELSE read_items(f, n.pos, n.fb, n.n, <<>>)
        : n \in {read_rdb_length(f, pos, fb)}} : TRUE

\* The value of a record of one string: read_length_prefixed_bytes.
read_one(f, pos, fb) ==
    CHOOSE res \in {
        [ok |-> v.ok, items |-> <<v.bytes>>, pos |-> v.pos, fb |-> v.fb]
        : v \in {read_string_with_encoding(f, pos, fb)}} : TRUE

\* The RedisValue variant a value opcode is loaded as.
LoadedAs(opcode) ==
    CASE opcode = 0 -> "String"
      [] opcode = 1 -> "List"
      [] opcode = 2 -> "Set"
      [] opcode \in {3, 9, 10} -> "Ziplist"
      [] opcode = 4 -> "Zipmap"
      [] opcode \in {11, 12} -> "Intset"
      [] opcode = 13 -> "Quicklist"
      [] OTHER -> "Unsupported"

\* The opcode save writes for a RedisValue variant.
SavedAs(type) ==
    CASE type = "String" -> 0
      [] type = "List" -> 1
      [] type = "Set" -> 2
      [] type = "Ziplist" -> 10
      [] type = "Zipmap" -> 4
      [] type = "Intset" -> 11
      [] type = "Quicklist" -> 13

ParseErr(m) == [ok |-> FALSE, msg |-> m, entries |-> <<>>, fb |-> <<>>, pos |-> 0]

\* The parser between two opcodes: the position of the reader, file_bytes,
\* current_expiry and the inserts into `data` so far, in their order:
\* key, value, expiry, and the opcode read.
Parsing(pos, fb, current_expiry, entries) ==
    [ok |-> TRUE, msg |-> "", pos |-> pos, fb |-> fb, expiry |-> current_expiry, entries |-> entries]
Stopped(m) == [ok |-> FALSE, msg |-> m, pos |-> 0, fb |-> <<>>, expiry |-> <<>>, entries |-> <<>>]

\* RdbParser::parse, one turn of the loop: the opcode at st.pos, which is
\* not 0xFF, and its record.  A List or Set whose count exceeds the bytes
\* left fails in its loop (Vec::with_capacity is taken to succeed).  Every
\* intermediate result is taken through a singleton set, which makes it a
\* value that is computed once.
parse_record(f, st) ==
    CHOOSE res \in {
        CASE opcode = 250 ->
                CHOOSE res1 \in {
                    IF ~k.ok THEN Stopped("io")
                    ELSE CHOOSE res2 \in {
                            IF ~v.ok THEN Stopped("io") ELSE Parsing(v.pos, v.fb, st.expiry, st.entries)
                            : v \in {read_length_prefixed_string(f, k.pos, k.fb)}} : TRUE
                    : k \in {read_length_prefixed_string(f, pos + 1, fb1)}} : TRUE
          [] opcode = 251 ->
                CHOOSE res1 \in {
                    IF ~a.ok THEN Stopped("io")
                    ELSE CHOOSE res2 \in {
                            IF ~b.ok THEN Stopped("io") ELSE Parsing(b.pos, b.fb, st.expiry, st.entries)
                            : b \in {read_rdb_length(f, a.pos, a.fb)}} : TRUE
                    : a \in {read_rdb_length(f, pos + 1, fb1)}} : TRUE
          [] opcode = 254 ->
                CHOOSE res1 \in {
                    IF ~a.ok THEN Stopped("io") ELSE Parsing(a.pos, a.fb, st.expiry, st.entries)
                    : a \in {read_rdb_length(f, pos + 1, fb1)}} : TRUE
          [] opcode = 253 ->
                IF ~Has(f, pos + 1, 4) THEN Stopped("io")
                ELSE Parsing(pos + 5, fb1 \o SubSeq(f, pos + 1, pos + 4),
                             <<Millis(FromLE(SubSeq(f, pos + 1, pos + 4)))>>, st.entries)
          [] opcode = 252 ->
                IF ~Has(f, pos + 1, 8) THEN Stopped("io")
                ELSE Parsing(pos + 9, fb1 \o SubSeq(f, pos + 1, pos + 8),
                             <<FromLE(SubSeq(f, pos + 1, pos + 8))>>, st.entries)
          [] LoadedAs(opcode) = "Unsupported" -> Stopped("Unsupported RDB value type")
          [] OTHER ->
                \* a value record: the key, then the items of a List or Set, or one string
                CHOOSE res1 \in {
                    IF ~k.ok THEN Stopped("io")
                    ELSE CHOOSE res2 \in {
                            IF ~v.ok THEN Stopped("io")
                            ELSE Parsing(v.pos, v.fb, <<>>,
                                    Append(st.entries, [key |-> k.bytes, expiry |-> st.expiry, opcode |-> opcode,
                                                        value |-> [type |-> LoadedAs(opcode), data |-> v.items]]))
                            : v \in {IF opcode \in {1, 2} THEN read_list(f, k.pos, k.fb)
                                      ELSE read_one(f, k.pos, k.fb)}} : TRUE
                    : k \in {read_length_prefixed_string(f, pos + 1, fb1)}} : TRUE
        : pos \in {st.pos}, opcode \in {f[st.pos]}, fb1 \in {Append(st.fb, f[st.pos])}} : TRUE

\* RdbParser::parse, the loop over the opcodes, left at 0xFF ("end") or
\* when no byte is left ("eof").  (The singleton set makes the state after
\* a record a value that is computed once.)
RECURSIVE parse_records(_, _)
parse_records(f, st) ==
    IF ~Has(f, st.pos, 1)
    THEN [ok |-> TRUE, msg |-> "eof", entries |-> st.entries, fb |-> st.fb, pos |-> st.pos]
    ELSE IF f[st.pos] = 255
    THEN [ok |-> TRUE, msg |-> "end", entries |-> st.entries, fb |-> Append(st.fb, 255), pos |-> st.pos + 1]
    ELSE CHOOSE res \in
            {IF ~s.ok THEN ParseErr(s.msg) ELSE parse_records(f, s) : s \in {parse_record(f, st)}} : TRUE

\* RdbParser::parse of the file with the bytes data and the trailer sum.
\* The 8 bytes read after the loop are the trailer only when the loop ended
\* at the end of data; 8 bytes of data, or none, never pass for the digest.
parse(file) ==
    LET f == file.data
    IN IF ~Has(f, 1, 5) THEN ParseErr("io")
       ELSE IF SubSeq(f, 1, 5) # Magic THEN ParseErr("Invalid RDB magic string")
       ELSE IF ~Has(f, 6, 4) THEN ParseErr("io")
       ELSE IF SubSeq(f, 6, 9) # VersionRead THEN ParseErr("Unsupported RDB version")
       ELSE LET r == parse_records(f, Parsing(10, SubSeq(f, 1, 9), <<>>, <<>>))
            IN IF ~r.ok THEN r
               ELSE IF r.msg = "eof" THEN ParseErr("io")
               ELSE IF r.pos # Len(f) + 1 THEN ParseErr("RDB checksum mismatch")
               ELSE IF file.sum = <<>> THEN ParseErr("io")
               ELSE IF file.sum[1] # r.fb THEN ParseErr("RDB checksum mismatch")
               ELSE r

\* RdbParser::load: a file that cannot be opened is an empty database.
load(file) ==
    IF ~file.exists THEN [ok |-> TRUE, msg |-> "end", entries |-> <<>>, fb |-> <<>>, pos |-> 0]
    ELSE parse(file)

\* write_rdb_length: the bytes appended, or the error for 2^32 and more.
\* A u64 too wide for the integers of the model is the pair of its upper
\* part hi and its 16 low bits lo: hi * 65536 + lo.
\* write_rdb_length as it would be with 64 itself written in one byte
\* (`<=` in place of `<` in the first test).
write_rdb_length_64_short(hi, lo) ==
    IF hi = 0 /\ lo <= 64 THEN [ok |-> TRUE, bytes |-> <<lo>>]
    ELSE IF hi = 0 /\ lo < 16384 THEN [ok |-> TRUE, bytes |-> <<64 + (lo \div 256), lo % 256>>]
    ELSE IF hi < 65536
    THEN [ok |-> TRUE, bytes |-> <<128, lo % 256, lo \div 256, hi % 256, hi \div 256>>]
    ELSE [ok |-> FALSE, bytes |-> <<>>]

\* write_rdb_length of hi * 65536 + lo: the bytes appended, or the error
\* for 2^32 and more.
write_rdb_length_u64(hi, lo) ==
    IF hi = 0 /\ lo < 64 THEN [ok |-> TRUE, bytes |-> <<lo>>]
    ELSE IF hi = 0 /\ lo < 16384 THEN [ok |-> TRUE, bytes |-> <<64 + (lo \div 256), lo % 256>>]
    ELSE IF hi < 65536
    THEN [ok |-> TRUE, bytes |-> <<128, lo % 256, lo \div 256, hi % 256, hi \div 256>>]
    ELSE [ok |-> FALSE, bytes |-> <<>>]

\* write_rdb_length of a length that an integer of the model holds.
write_rdb_length(len) == write_rdb_length_u64(len \div 65536, len % 65536)

\* read_rdb_length with its result at full width: hi * 65536 + lo.
read_rdb_length_u64(f, start, collected) ==
    LET r == read_rdb_length(f, start, collected)
    IN IF r.ok /\ f[start] \div 64 = 2
       THEN [ok |-> TRUE, hi |-> f[start + 3] + 256 * f[start + 4],
             lo |-> f[start + 1] + 256 * f[start + 2], pos |-> r.pos, fb |-> r.fb]
       ELSE [ok |-> r.ok, hi |-> r.n \div 65536, lo |-> r.n % 65536, pos |-> r.pos, fb |-> r.fb]

\* write_length_prefixed_string and write_length_prefixed_bytes
write_length_prefixed_bytes(bytes) == write_rdb_length(Len(bytes)).bytes \o bytes

RECURSIVE write_items(_)
write_items(items) ==
    IF items = <<>> THEN <<>> ELSE write_length_prefixed_bytes(Head(items)) \o write_items(Tail(items))

\* rdb::save: the bytes of one turn of the loop, for the key k at monotonic
\* time t with the wall clock read as wall.
write_entry(kv, exp, t, wall, k) ==
    LET stamp == IF exp[k] # <<>> /\ exp[k][1] > t
                 THEN <<252>> \o ToLE(wall + (exp[k][1] - t), 8) ELSE <<>>
        v == kv[k]
    IN stamp \o <<SavedAs(v.type)>> \o write_length_prefixed_bytes(k)
             \o (IF v.type \in {"List", "Set"}
                 THEN write_rdb_length(Len(v.data)).bytes \o write_items(v.data)
                 ELSE write_length_prefixed_bytes(v.data[1]))

RECURSIVE write_entries(_, _, _, _, _)
write_entries(kv, exp, t, wall, order) ==
    IF order = <<>> THEN <<>>
    ELSE write_entry(kv, exp, t, wall, Head(order)) \o write_entries(kv, exp, t, wall, Tail(order))

\* rdb::save: file_bytes before the checksum.
save_bytes(kv, exp, t, wall, order) ==
    Magic \o VersionWritten \o <<254>> \o write_rdb_length(0).bytes
          \o <<251>> \o write_rdb_length(Cardinality({k \in StrKeys : kv[k] # Absent})).bytes
                     \o write_rdb_length(Cardinality({k \in StrKeys : exp[k] # <<>>})).bytes
          \o write_entries(kv, exp, t, wall, order) \o <<255>>

(***************************************************************************)
(* The snapshot on disk.  A path is the record [stem, ext]; the directory  *)
(* holds one file per path.                                                *)
(***************************************************************************)
PathOf(stem, ext) == [stem |-> stem, ext |-> <<ext>>]

\* Path::with_extension
with_extension(path, ext) == [path EXCEPT !.ext = <<ext>>]

\* Config::default: dbfilename "dump.rdb"
DefaultDbfilename == PathOf("dump", "rdb")

\* The names CONFIG SET dbfilename is given.
Dbfilenames == {PathOf("dump", "rdb"), PathOf("dump", "tmp")}
Paths == Dbfilenames \cup {with_extension(n, "tmp") : n \in Dbfilenames}

\* A snapshot as the reader of this program takes it: every string is one
\* byte, then its length encoding, then its bytes; the trailer is the
\* checksum of what the reader collects in file_bytes, which leaves that
\* first byte out.
Str(lead, bytes) == [lead |-> <<lead>>, bytes |-> bytes]
ReaderForm(s) == s.lead \o write_length_prefixed_bytes(s.bytes)
SummedForm(s) == write_length_prefixed_bytes(s.bytes)

ReaderFile(opcode, key, value) ==
    FileOf(Magic \o VersionRead \o <<opcode>> \o ReaderForm(key) \o ReaderForm(value) \o <<255>>,
           Magic \o VersionRead \o <<opcode>> \o SummedForm(key) \o SummedForm(value) \o <<255>>)

\* A snapshot as Redis writes it: SET k v.
RedisFile ==
    LET d == Magic \o VersionRead \o <<0>> \o write_length_prefixed_bytes(<<107>>)
                   \o write_length_prefixed_bytes(<<118>>) \o <<255>>
    IN FileOf(d, d)

\* A List of two items for k, in the form this reader takes.
ListFile ==
    LET k == Str(0, <<107>>)
        a == Str(0, <<105>>)
        b == Str(0, <<106>>)
    IN FileOf(Magic \o VersionRead \o <<1>> \o ReaderForm(k) \o <<2>> \o ReaderForm(a) \o ReaderForm(b) \o <<255>>,
              Magic \o VersionRead \o <<1>> \o SummedForm(k) \o <<2>> \o SummedForm(a) \o SummedForm(b) \o <<255>>)

\* The files found on disk at start: none, one Redis wrote, and snapshots
\* this reader takes: a String, a List, and one value of each opaque opcode.
OpaqueOpcodes == {3, 4, 9, 10, 11, 12, 13}
Snapshots ==
    {NoFile, RedisFile, ListFile, ReaderFile(0, Str(0, <<107>>), Str(0, <<118>>))}
        \cup {ReaderFile(o, Str(0, <<107>>), Str(0, <<112, 113>>)) : o \in OpaqueOpcodes}

\* The RdbDatabase of the entries parse inserted: the last insert of a key
\* stays.
RECURSIVE AsDatabase(_)
AsDatabase(entries) ==
    IF entries = <<>> THEN [k \in StrKeys |-> NoEntry]
    ELSE LET e == entries[Len(entries)]
             rest == AsDatabase(SubSeq(entries, 1, Len(entries) - 1))
         IN IF rest[e.key] # NoEntry THEN rest    \* a later insert of the key is already in
            ELSE [rest EXCEPT ![e.key] = [value |-> e.value, expiry |-> e.expiry]]

\* The last call: its result, the target file as it was before the call,
\* the entries of the last load while the keyspace is what it loaded, and
\* the value records a save wrote: key, opcode, payload.
MaxAlter == 20      \* the positions at which a byte of the file is altered
MaxCalls == 3       \* calls made on the snapshot side in one run

NoOut == [op |-> "none", ok |-> TRUE, before |-> NoFile, loaded |-> <<>>, recs |-> <<>>,
          order |-> <<>>, at |-> 0, calls |-> 0]

\* The record of one more call.
Called(op) == [NoOut EXCEPT !.op = op, !.calls = out.calls + 1]

\* A length on its way through write_rdb_length and read_rdb_length: the
\* length, the buffer before the write, the bytes that follow in the file,
\* the buffer, the result of the write and the result of the read.
NoWrite == [ok |-> TRUE, bytes |-> <<>>]
NoRead == [ok |-> FALSE, hi |-> 0, lo |-> 0, pos |-> 0, fb |-> <<>>]
NoLength == [st |-> "none", hi |-> 0, lo |-> 0, before |-> <<>>, after |-> <<>>,
             buffer |-> <<>>, wrote |-> NoWrite, read |-> NoRead]

\* No length is under way.
LengthIdle == lenio = NoLength

\* The lengths written: around 64, 16384, 65536, 2^31 and 2^32.
LowParts == {0, 1, 63, 64, 65, 255, 256, 16383, 16384, 16385, 65535}
HighParts == {0, 1, 255, 256, 32767, 32768, 65535, 65536, 65537}

LengthInit ==
    \E hi \in HighParts, lo \in LowParts, before \in {<<>>, <<14>>}, after \in {<<>>, <<129>>} :
        lenio = [NoLength EXCEPT !.st = "new", !.hi = hi, !.lo = lo, !.before = before,
                                 !.after = after, !.buffer = before]

\* write_rdb_length(&mut buffer, len)
WriteLength ==
    LET w == write_rdb_length_u64(lenio.hi, lenio.lo)
    IN /\ lenio.st = "new"
       /\ lenio' = [lenio EXCEPT !.st = "written", !.wrote = w, !.buffer = lenio.buffer \o w.bytes]

\* read_rdb_length on a reader that stands at the bytes just written,
\* in a file that goes on with the bytes of `after`.
ReadLength ==
    /\ lenio.st = "written"
    /\ lenio.wrote.ok
    /\ lenio' = [lenio EXCEPT !.st = "read",
                    !.read = read_rdb_length_u64(lenio.buffer \o lenio.after,
                                                 Len(lenio.before) + 1, <<>>)]

\* The snapshot side at rest, for the specifications that do not use it.
RdbIdle ==
    /\ dbfilename = DefaultDbfilename
    /\ disk = [p \in Paths |-> NoFile]
    /\ out = NoOut

RdbInit ==
    /\ dbfilename = DefaultDbfilename
    /\ \E f \in Snapshots : disk = [p \in Paths |-> IF p = DefaultDbfilename THEN f ELSE NoFile]
    /\ out = NoOut

\* config::set_dbfilename
SetDbfilename(name) ==
    /\ out.calls < MaxCalls
    /\ dbfilename' = name
    /\ out' = [Called("config") EXCEPT !.loaded = out.loaded]
    /\ UNCHANGED <<KV, EXP, now, disk>>

\* db::set, called with the value v and the option PX px or none.
RdbSet(key, v, px) ==
    LET r == db_set(KV, EXP, now, key, v, <<>>, px, FALSE, FALSE)
    IN /\ out.calls < MaxCalls
       /\ KV' = r.kv
       /\ EXP' = r.exp
       /\ out' = Called("set")
       /\ UNCHANGED <<now, disk, dbfilename>>

\* The points at which rdb::save returns an error.
SaveFailures == {"create", "clock", "write", "flush", "rename"}

\* The value records of a save, in the order of its loop.
save_records(kv, order) ==
    [i \in 1..Len(order) |-> [key |-> order[i], opcode |-> SavedAs(kv[order[i]].type),
                              data |-> kv[order[i]].data]]

\* rdb::save.  fail is "none" or the step that returns an error; cut is the
\* number of bytes a failing write_all has written.
Save(order, fail, cut) ==
    LET p == purge_expired_keys(KV, EXP, now)
        rdb_path == dbfilename
        temp_path == with_extension(rdb_path, "tmp")
        bytes == save_bytes(p.kv, p.exp, now, WallClock(now), order)
        created == [disk EXCEPT ![temp_path] = [exists |-> TRUE, data |-> <<>>, sum |-> <<>>]]
        partial == [disk EXCEPT ![temp_path] = [exists |-> TRUE, data |-> SubSeq(bytes, 1, cut), sum |-> <<>>]]
        full == [disk EXCEPT ![temp_path] = FileOf(bytes, bytes)]
        renamed == IF temp_path = rdb_path THEN full
                   ELSE [full EXCEPT ![rdb_path] = full[temp_path], ![temp_path] = NoFile]
    IN /\ out.calls < MaxCalls
       /\ order \in Orders({k \in StrKeys : p.kv[k] # Absent})
       /\ cut \in 0..Len(bytes)
       /\ KV' = p.kv
       /\ EXP' = p.exp
       /\ disk' = CASE fail = "create" -> disk
                    [] fail = "clock" -> created
                    [] fail = "write" -> partial
                    [] fail \in {"flush", "rename"} -> full
                    [] fail = "none" -> renamed
       /\ out' = [op |-> "save", ok |-> fail = "none", before |-> disk[rdb_path],
                  loaded |-> IF p.kv = KV THEN out.loaded ELSE <<>>,
                  recs |-> IF fail = "none" THEN save_records(p.kv, order) ELSE <<>>,
                  order |-> order, at |-> now, calls |-> out.calls + 1]
       /\ UNCHANGED <<now, dbfilename>>

\* RdbParser::load of <dir>/<dbfilename>, and db::load_from_rdb of what it
\* returned.  The keys of the model are those of StrKeys.
Load2 ==
    LET r == load(disk[dbfilename])
        keysOk == \A i \in 1..Len(r.entries) : r.entries[i].key \in StrKeys
        l == load_from_rdb(AsDatabase(r.entries), now, WallClock(now), TRUE)
    IN /\ out.calls < MaxCalls
       /\ r.ok => keysOk
       /\ IF r.ok THEN KV' = l.kv /\ EXP' = l.exp ELSE UNCHANGED <<KV, EXP>>
       /\ out' = [Called("load") EXCEPT !.ok = r.ok, !.before = disk[dbfilename],
                               !.loaded = IF r.ok THEN r.entries ELSE <<>>]
       /\ UNCHANGED <<now, disk, dbfilename>>

\* One byte of the snapshot found at start is altered on disk before the
\* program touches it, in its data or (pos = 0) in its trailer.
Alter(pos, byte) ==
    LET f == disk[dbfilename]
    IN /\ out.calls = 0
       /\ f.exists
       /\ f \in Snapshots
       /\ pos \in 0..Len(f.data)
       /\ pos > 0 => byte # f.data[pos]
       /\ disk' = [disk EXCEPT ![dbfilename] =
                      IF pos = 0 THEN [f EXCEPT !.sum = <<Append(f.sum[1], byte)>>]
                      ELSE [f EXCEPT !.data[pos] = byte]]
       /\ out' = [Called("alter") EXCEPT !.before = f, !.at = pos]
       /\ UNCHANGED <<KV, EXP, now, dbfilename>>

\* Time passes.
TickRdb ==
    /\ now < MaxTime
    /\ now' = now + 1
    /\ out' = [out EXCEPT !.op = "tick"]
    /\ UNCHANGED <<KV, EXP, disk, dbfilename>>


\* Compressed strings: the blocks of an LZF stream.  A literal run of one
\* and of two bytes, a back reference of 3 bytes at offset 1 (over its own
\* output), one of 4 bytes at offset 2, and one with an extension byte.
LzfBlocks == {<<0, 97>>, <<1, 97, 98>>, <<32, 0>>, <<64, 1>>, <<224, 1, 0>>}
LzfStreams ==
    LzfBlocks \cup {a \o b : a, b \in LzfBlocks} \cup {a \o b \o c : a, b, c \in LzfBlocks}

\* A snapshot with the String k whose value is the LZF stream c: 0xC3,
\* the compressed length, the uncompressed length, the stream.
\* (The uncompressed length is the capacity of the output and no more.)
LzfFile(c) ==
    LET v == <<195>> \o write_rdb_length(Len(c)).bytes \o write_rdb_length(12).bytes \o c
    IN FileOf(Magic \o VersionRead \o <<0>> \o ReaderForm(Str(0, <<107>>)) \o v \o <<255>>,
              Magic \o VersionRead \o <<0>> \o SummedForm(Str(0, <<107>>)) \o v \o <<255>>)
LzfFileOf == [c \in LzfStreams |-> LzfFile(c)]
LzfFiles == {LzfFileOf[c] : c \in LzfStreams}

\* Records of a snapshot, and the bytes of each as the reader takes them
\* (data) and as it collects them in file_bytes (sum).
RecMs(n) == [op |-> 252, n |-> n, key |-> <<>>, items |-> <<>>]
RecSeconds(n) == [op |-> 253, n |-> n, key |-> <<>>, items |-> <<>>]
RecAux == [op |-> 250, n |-> 0, key |-> <<97>>, items |-> <<<<98>>>>]
RecResize == [op |-> 251, n |-> 1, key |-> <<>>, items |-> <<>>]
RecSelect == [op |-> 254, n |-> 0, key |-> <<>>, items |-> <<>>]
RecString(k, v) == [op |-> 0, n |-> 0, key |-> k, items |-> <<v>>]
RecList(k, items) == [op |-> 1, n |-> 0, key |-> k, items |-> items]

RECURSIVE StrsForm(_, _)
StrsForm(items, summed) ==
    IF items = <<>> THEN <<>>
    ELSE (IF summed THEN SummedForm(Str(0, Head(items))) ELSE ReaderForm(Str(0, Head(items))))
             \o StrsForm(Tail(items), summed)

RecForm(r, summed) ==
    <<r.op>> \o
    CASE r.op = 252 -> ToLE(r.n, 8)
      [] r.op = 253 -> ToLE(r.n, 4)
      [] r.op = 251 -> write_rdb_length(r.n).bytes \o write_rdb_length(r.n).bytes
      [] r.op = 254 -> write_rdb_length(r.n).bytes
      [] r.op = 1 -> StrsForm(<<r.key>>, summed) \o write_rdb_length(Len(r.items)).bytes
                         \o StrsForm(r.items, summed)
      [] OTHER -> StrsForm(<<r.key>> \o r.items, summed)

RECURSIVE RecsForm(_, _)
RecsForm(recs, summed) ==
    IF recs = <<>> THEN <<>> ELSE RecForm(Head(recs), summed) \o RecsForm(Tail(recs), summed)

RecordsFile(recs) ==
    FileOf(Magic \o VersionRead \o RecsForm(recs, FALSE) \o <<255>>,
           Magic \o VersionRead \o RecsForm(recs, TRUE) \o <<255>>)

\* Snapshots with expiry records: none, one or two expiry records, then
\* records of no value, then a value record, and the same once more or
\* nothing.
ExpiryRuns == {<<>>, <<RecMs(7000)>>, <<RecSeconds(8)>>, <<RecMs(7000), RecSeconds(8)>>,
               <<RecSeconds(8), RecMs(7000)>>}
PlainRuns == {<<>>, <<RecAux>>, <<RecResize>>, <<RecSelect>>, <<RecAux, RecSelect, RecResize>>}
FirstValues == {<<RecString(<<107>>, <<118>>)>>, <<RecList(<<107>>, <<<<105>>, <<106>>>>)>>}
LaterRuns == {<<>>, <<RecString(<<107>>, <<119>>)>>, <<RecSelect, RecString(<<107>>, <<119>>)>>,
              <<RecMs(9000), RecString(<<107>>, <<119>>)>>,
              <<RecSeconds(9), RecAux, RecString(<<107>>, <<119>>), RecString(<<107>>, <<118>>)>>}
ExpiryRecords == {e \o p \o v \o l : e \in ExpiryRuns, p \in PlainRuns, v \in FirstValues, l \in LaterRuns}
ExpiryFileOf == [recs \in ExpiryRecords |-> RecordsFile(recs)]
ExpiryFiles == {ExpiryFileOf[recs] : recs \in ExpiryRecords}
(***************************************************************************)
(* dispatch (src/commands/mod.rs) and the handlers it routes to            *)
(* (src/commands/default.rs).  The names it matches, after                 *)
(* String::from_utf8_lossy(..).to_lowercase(), and the texts of the        *)
(* replies, as bytes.                                                      *)
(***************************************************************************)
NamePing == <<112, 105, 110, 103>>      \* "ping"
NameEcho == <<101, 99, 104, 111>>      \* "echo"
NameSet == <<115, 101, 116>>      \* "set"
NameGet == <<103, 101, 116>>      \* "get"
NameConfig == <<99, 111, 110, 102, 105, 103>>      \* "config"
ParamDir == <<100, 105, 114>>      \* "dir"
ParamDbfilename == <<100, 98, 102, 105, 108, 101, 110, 97, 109, 101>>      \* "dbfilename"
DumpRdb == <<100, 117, 109, 112, 46, 114, 100, 98>>      \* "dump.rdb"
DumpTmp == <<100, 117, 109, 112, 46, 116, 109, 112>>      \* "dump.tmp"
Pong == <<80, 79, 78, 71>>      \* "PONG"

\* "ERR wrong number of arguments for 'echo'"
MsgEchoArity ==
    <<69, 82, 82, 32, 119, 114, 111, 110, 103, 32, 110, 117, 109, 98,
      101, 114, 32, 111, 102, 32, 97, 114, 103, 117, 109, 101, 110,
      116, 115, 32, 102, 111, 114, 32, 39, 101, 99, 104, 111, 39>>

\* "ERR invalid argument for 'echo'"
MsgEchoArg ==
    <<69, 82, 82, 32, 105, 110, 118, 97, 108, 105, 100, 32, 97, 114,
      103, 117, 109, 101, 110, 116, 32, 102, 111, 114, 32, 39, 101,
      99, 104, 111, 39>>

\* "ERR wrong number of arguments for 'config'"
MsgConfigArity ==
    <<69, 82, 82, 32, 119, 114, 111, 110, 103, 32, 110, 117, 109, 98,
      101, 114, 32, 111, 102, 32, 97, 114, 103, 117, 109, 101, 110,
      116, 115, 32, 102, 111, 114, 32, 39, 99, 111, 110, 102, 105,
      103, 39>>

\* "ERR unknown subcommand for 'config'"
MsgConfigSub ==
    <<69, 82, 82, 32, 117, 110, 107, 110, 111, 119, 110, 32, 115,
      117, 98, 99, 111, 109, 109, 97, 110, 100, 32, 102, 111, 114,
      32, 39, 99, 111, 110, 102, 105, 103, 39>>

\* "ERR invalid subcommand for 'config'"
MsgConfigSubType ==
    <<69, 82, 82, 32, 105, 110, 118, 97, 108, 105, 100, 32, 115, 117,
      98, 99, 111, 109, 109, 97, 110, 100, 32, 102, 111, 114, 32, 39,
      99, 111, 110, 102, 105, 103, 39>>

\* "ERR wrong number of arguments for 'config get'"
MsgConfigGetArity ==
    <<69, 82, 82, 32, 119, 114, 111, 110, 103, 32, 110, 117, 109, 98,
      101, 114, 32, 111, 102, 32, 97, 114, 103, 117, 109, 101, 110,
      116, 115, 32, 102, 111, 114, 32, 39, 99, 111, 110, 102, 105,
      103, 32, 103, 101, 116, 39>>

\* "ERR invalid argument for 'config get'"
MsgConfigGetArg ==
    <<69, 82, 82, 32, 105, 110, 118, 97, 108, 105, 100, 32, 97, 114,
      103, 117, 109, 101, 110, 116, 32, 102, 111, 114, 32, 39, 99,
      111, 110, 102, 105, 103, 32, 103, 101, 116, 39>>

\* "ERR wrong number of arguments for 'config set'"
MsgConfigSetArity ==
    <<69, 82, 82, 32, 119, 114, 111, 110, 103, 32, 110, 117, 109, 98,
      101, 114, 32, 111, 102, 32, 97, 114, 103, 117, 109, 101, 110,
      116, 115, 32, 102, 111, 114, 32, 39, 99, 111, 110, 102, 105,
      103, 32, 115, 101, 116, 39>>

\* "ERR invalid argument for 'config set'"
MsgConfigSetArg ==
    <<69, 82, 82, 32, 105, 110, 118, 97, 108, 105, 100, 32, 97, 114,
      103, 117, 109, 101, 110, 116, 32, 102, 111, 114, 32, 39, 99,
      111, 110, 102, 105, 103, 32, 115, 101, 116, 39>>

\* "ERR invalid value for 'config set'"
MsgConfigSetValue ==
    <<69, 82, 82, 32, 105, 110, 118, 97, 108, 105, 100, 32, 118, 97,
      108, 117, 101, 32, 102, 111, 114, 32, 39, 99, 111, 110, 102,
      105, 103, 32, 115, 101, 116, 39>>

\* "ERR unknown configuration parameter"
MsgConfigParam ==
    <<69, 82, 82, 32, 117, 110, 107, 110, 111, 119, 110, 32, 99, 111,
      110, 102, 105, 103, 117, 114, 97, 116, 105, 111, 110, 32, 112,
      97, 114, 97, 109, 101, 116, 101, 114>>

\* "unknown command"
MsgUnknown ==
    <<117, 110, 107, 110, 111, 119, 110, 32, 99, 111, 109, 109, 97,
      110, 100>>

\* "Protocol error: invalid command"
MsgInvalidCommand ==
    <<80, 114, 111, 116, 111, 99, 111, 108, 32, 101, 114, 114, 111,
      114, 58, 32, 105, 110, 118, 97, 108, 105, 100, 32, 99, 111,
      109, 109, 97, 110, 100>>

\* "Protocol error: expected array"
MsgExpectedArray ==
    <<80, 114, 111, 116, 111, 99, 111, 108, 32, 101, 114, 114, 111,
      114, 58, 32, 101, 120, 112, 101, 99, 116, 101, 100, 32, 97,
      114, 114, 97, 121>>
\* str::to_lowercase on the texts of the model: the letters A to Z.
to_lowercase(s) == [i \in 1..Len(s) |-> IF s[i] \in 65..90 THEN s[i] + 32 ELSE s[i]]

\* Config.dbfilename as the text CONFIG GET answers and CONFIG SET takes.
FileName(path) == IF path = PathOf("dump", "tmp") THEN DumpTmp ELSE DumpRdb
PathNamed(text) ==
    IF text = DumpRdb THEN PathOf("dump", "rdb")
    ELSE IF text = DumpTmp THEN PathOf("dump", "tmp")
    ELSE PathOf("other", "")

\* Config.dir: the directory the process was started in.
Dir == <<46>>

\* What a handler returns: the reply frame, the maps and the configuration
\* as it leaves them; wait is <<k>> when db::get goes on to read KV for k.
Handled(route, reply, kv, exp, name) ==
    [route |-> route, reply |-> reply, kv |-> kv, exp |-> exp, name |-> name, wait |-> <<>>]

\* default::ping
ping(args, kv, exp, name) == Handled("ping", Frame("SimpleString", FALSE, Pong), kv, exp, name)

\* default::echo
echo(args, kv, exp, name) ==
    IF Len(args) # 1 THEN Handled("echo", ErrorF(MsgEchoArity), kv, exp, name)
    ELSE IF IsBulk(args[1]) THEN Handled("echo", Frame("BulkString", FALSE, args[1].val), kv, exp, name)
    ELSE Handled("echo", ErrorF(MsgEchoArg), kv, exp, name)

\* default::set and db::set
set(args, kv, exp, t, name) ==
    CHOOSE res \in
        { IF p.err # <<>> THEN Handled("set", p.err[1], kv, exp, name)
          ELSE CHOOSE res1 \in
                 { Handled("set", set_reply(r), r.kv, r.exp, name) :
                     r \in {db_set(kv, exp, t, args[1].val, args[2].val, p.ex, p.px, p.nx, p.xx)} } : TRUE
          : p \in {set_args(args)} } : TRUE

\* default::get and db::get up to the release of the read guard of EXP
get(args, kv, exp, t, name) ==
    IF get_args(args) # <<>> THEN Handled("get", get_args(args)[1], kv, exp, name)
    ELSE IF get_expired(exp, t, Utf8Lossy(args[1].val)) THEN Handled("get", NullBulk, kv, exp, name)
    ELSE [Handled("get", NoFrame, kv, exp, name) EXCEPT !.wait = <<Utf8Lossy(args[1].val)>>]

\* default::config_get
config_get(args, kv, exp, name) ==
    IF Len(args) # 1 THEN Handled("config_get", ErrorF(MsgConfigGetArity), kv, exp, name)
    ELSE IF ~IsBulk(args[1]) THEN Handled("config_get", ErrorF(MsgConfigGetArg), kv, exp, name)
    ELSE LET param == to_lowercase(Utf8Lossy(args[1].val))
             value == IF param = ParamDir THEN Dir
                      ELSE IF param = ParamDbfilename THEN FileName(name)
                      ELSE <<>>
         IN Handled("config_get",
                    ListF("Array", <<Frame("BulkString", FALSE, param), Frame("BulkString", FALSE, value)>>),
                    kv, exp, name)

\* default::config_set (config::set_dir changes Config.dir, which the model
\* does not keep)
config_set(args, kv, exp, name) ==
    IF Len(args) # 2 THEN Handled("config_set", ErrorF(MsgConfigSetArity), kv, exp, name)
    ELSE IF ~IsBulk(args[1]) THEN Handled("config_set", ErrorF(MsgConfigSetArg), kv, exp, name)
    ELSE IF ~IsBulk(args[2]) THEN Handled("config_set", ErrorF(MsgConfigSetValue), kv, exp, name)
    ELSE LET param == to_lowercase(Utf8Lossy(args[1].val))
         IN IF param = ParamDir THEN Handled("config_set", OkF, kv, exp, name)
            ELSE IF param = ParamDbfilename
                 THEN Handled("config_set", OkF, kv, exp, PathNamed(Utf8Lossy(args[2].val)))
            ELSE Handled("config_set", ErrorF(MsgConfigParam), kv, exp, name)

\* default::unknown
unknown(kv, exp, name) == Handled("unknown", ErrorF(MsgUnknown), kv, exp, name)

\* default::error
error(msg, kv, exp, name) == Handled("error", ErrorF(msg), kv, exp, name)

\* dispatch, the arm "config"
dispatch_config(v, kv, exp, name) ==
    IF v = <<>> THEN error(MsgConfigArity, kv, exp, name)
    ELSE IF ~IsBulk(v[1]) THEN error(MsgConfigSubType, kv, exp, name)
    ELSE LET subcmd_str == to_lowercase(Utf8Lossy(v[1].val))
         IN IF subcmd_str = NameGet THEN config_get(Tail(v), kv, exp, name)
            ELSE IF subcmd_str = NameSet THEN config_set(Tail(v), kv, exp, name)
            ELSE error(MsgConfigSub, kv, exp, name)

\* dispatch with the keyspace kv, exp at monotonic time t and
\* Config.dbfilename = name
dispatch(frame, kv, exp, t, name) ==
    IF frame.tag = "Array" /\ ~frame.null /\ frame.kids # <<>>
    THEN IF IsBulk(frame.kids[1])
         THEN LET cmd_str == to_lowercase(Utf8Lossy(frame.kids[1].val))
                  v == Tail(frame.kids)
              IN CASE cmd_str = NamePing -> ping(v, kv, exp, name)
                   [] cmd_str = NameEcho -> echo(v, kv, exp, name)
                   [] cmd_str = NameSet -> set(v, kv, exp, t, name)
                   [] cmd_str = NameGet -> get(v, kv, exp, t, name)
                   [] cmd_str = NameConfig -> dispatch_config(v, kv, exp, name)
                   [] OTHER -> unknown(kv, exp, name)
         ELSE error(MsgInvalidCommand, kv, exp, name)
    ELSE error(MsgExpectedArray, kv, exp, name)

(***************************************************************************)
(* The server (src/server.rs): start accepts connections and spawns one    *)
(* task per connection, which runs handle.  conn[c] is the connection c:   *)
(*   st     "none" (not accepted yet), "open", "closed" (handle returned   *)
(*          on Ok(0)), "reset" (handle returned on a write error),         *)
(*          "panicked" (the task unwound; its socket is dropped);          *)
(*   inbox  the segments the client sent that handle has not read;         *)
(*   pbuf   the buffer of the connection's FrameParser;                    *)
(*   pc     where handle stands: "read", "parse", "dispatch", "get_kv"     *)
(*          (inside db::get, between its two locks), "write";              *)
(*   cur, reply, route, wait, changed: the frame being dispatched and what *)
(*          dispatch made of it;                                           *)
(*   sent   (history) the requests the client's bytes encode;              *)
(*   partial (history) a read left a strict prefix of a request in pbuf;   *)
(*   started, applied: the requests handed to dispatch, and returned by it;*)
(*   log    (history) one record per response written to the socket.       *)
(***************************************************************************)
Conns == {"c1", "c2"}

BufSize == 1024     \* let mut buf = [0u8; 1024]

Cmd(words) == ListF("Array", [i \in 1..Len(words) |-> Frame("BulkString", FALSE, words[i])])

\* Requests of the command surface that are well formed, in several letter cases.
Routed ==
    { Cmd(<<<<80, 73, 78, 71>>>>),    \* PING
      Cmd(<<<<112, 105, 110, 103>>>>),    \* ping
      Cmd(<<<<80, 105, 78, 103>>>>),    \* PiNg
      Cmd(<<<<69, 67, 72, 79>>, <<97>>>>),    \* ECHO a
      Cmd(<<<<101, 99, 104, 111>>, <<97>>>>),    \* echo a
      Cmd(<<<<83, 69, 84>>, <<107>>, <<118>>>>),    \* SET k v
      Cmd(<<<<115, 101, 116>>, <<107>>, <<118>>>>),    \* set k v
      Cmd(<<<<115, 69, 116>>, <<107>>, <<118>>, <<80, 88>>, <<49>>>>),    \* sEt k v PX 1
      Cmd(<<<<71, 69, 84>>, <<107>>>>),    \* GET k
      Cmd(<<<<103, 101, 116>>, <<107>>>>),    \* get k
      Cmd(<<<<75, 69, 89, 83>>, <<42>>>>),    \* KEYS *
      Cmd(<<<<107, 101, 121, 115>>, <<42>>>>),    \* keys *
      Cmd(<<<<83, 65, 86, 69>>>>),    \* SAVE
      Cmd(<<<<115, 97, 118, 101>>>>),    \* save
      Cmd(<<<<67, 79, 78, 70, 73, 71>>, <<71, 69, 84>>, <<100, 98, 102, 105, 108, 101, 110, 97, 109, 101>>>>),    \* CONFIG GET dbfilename
      Cmd(<<<<99, 111, 110, 102, 105, 103>>, <<103, 101, 116>>, <<100, 98, 102, 105, 108, 101, 110, 97, 109, 101>>>>),    \* config get dbfilename
      Cmd(<<<<67, 79, 78, 70, 73, 71>>, <<83, 69, 84>>, <<100, 98, 102, 105, 108, 101, 110, 97, 109, 101>>, <<100, 117, 109, 112, 46, 116, 109, 112>>>>),    \* CONFIG SET dbfilename dump.tmp
      Cmd(<<<<67, 111, 110, 102, 105, 103>>, <<83, 101, 116>>, <<100, 98, 102, 105, 108, 101, 110, 97, 109, 101>>, <<100, 117, 109, 112, 46, 116, 109, 112>>>>) }    \* Config Set dbfilename dump.tmp

\* Requests of the command surface that are in error.
CmdErrors ==
    { Cmd(<<<<69, 67, 72, 79>>>>),    \* ECHO: wrong arity
      Cmd(<<<<83, 69, 84>>, <<107>>>>),    \* SET k: wrong arity
      Cmd(<<<<71, 69, 84>>>>),    \* GET: wrong arity
      Cmd(<<<<75, 69, 89, 83>>>>),    \* KEYS: wrong arity
      Cmd(<<<<83, 65, 86, 69>>, <<120>>>>),    \* SAVE x: wrong arity
      Cmd(<<<<67, 79, 78, 70, 73, 71>>>>),    \* CONFIG: wrong arity
      Cmd(<<<<67, 79, 78, 70, 73, 71>>, <<71, 69, 84>>>>),    \* CONFIG GET: wrong arity
      Cmd(<<<<67, 79, 78, 70, 73, 71>>, <<83, 69, 84>>, <<100, 98, 102, 105, 108, 101, 110, 97, 109, 101>>>>),    \* CONFIG SET dbfilename: wrong arity
      Cmd(<<<<83, 69, 84>>, <<107>>, <<118>>, <<66, 65, 68>>>>),    \* SET k v BAD: unknown option
      Cmd(<<<<83, 69, 84>>, <<107>>, <<118>>, <<69, 88>>, <<48>>>>),    \* SET k v EX 0: EX zero
      Cmd(<<<<83, 69, 84>>, <<107>>, <<118>>, <<80, 88>>, <<48>>>>),    \* SET k v PX 0: PX zero
      Cmd(<<<<83, 69, 84>>, <<107>>, <<118>>, <<69, 88>>, <<45, 49>>>>),    \* SET k v EX -1: EX negative
      Cmd(<<<<83, 69, 84>>, <<107>>, <<118>>, <<80, 88>>, <<120>>>>),    \* SET k v PX x: PX not a number
      Cmd(<<<<67, 79, 78, 70, 73, 71>>, <<70, 79, 79>>>>),    \* CONFIG FOO: unknown subcommand
      ListF("Array", <<BulkF(<<83, 69, 84>>), IntF(0), BulkF(<<118>>)>>),    \* SET :0 v: wrong argument type
      ListF("Array", <<BulkF(<<71, 69, 84>>), IntF(0)>>),    \* GET :0: wrong argument type
      ListF("Array", <<BulkF(<<69, 67, 72, 79>>), IntF(0)>>),    \* ECHO :0: wrong argument type
      ListF("Array", <<BulkF(<<67, 79, 78, 70, 73, 71>>), IntF(0)>>) }    \* CONFIG :0: wrong argument type

\* A request that names no command.
Foreign == {Cmd(<<<<70, 79, 79>>>>)}    \* FOO

Probe == Cmd(<<<<71, 69, 84>>, <<107>>>>)    \* GET k
ReqPing == Cmd(<<<<80, 73, 78, 71>>>>)    \* PING
ReqSet == Cmd(<<<<83, 69, 84>>, <<107>>, <<118>>>>)    \* SET k v
ReqSetW == Cmd(<<<<83, 69, 84>>, <<107>>, <<119>>>>)    \* SET k w
Inline == <<80, 73, 78, 71, 13, 10>>    \* the inline command PING\r\n
\* The names of the command surface, in upper case.
SurfaceNames == {<<80, 73, 78, 71>>, <<69, 67, 72, 79>>, <<83, 69, 84>>, <<71, 69, 84>>, <<75, 69, 89, 83>>, <<83, 65, 86, 69>>}
SurfaceConfig == <<67, 79, 78, 70, 73, 71>>
SurfaceSubs == {<<71, 69, 84>>, <<83, 69, 84>>}
ErrPrefix == <<69, 82, 82, 32>>    \* "ERR "

Requests == Routed \cup CmdErrors \cup Foreign

\* What a client sends: the requests, and the segments their bytes arrive in.
Whole(reqs) == [sent |-> reqs, chunks |-> <<EncodeAll(reqs)>>]
Each(reqs) == [sent |-> reqs, chunks |-> [i \in 1..Len(reqs) |-> Encode(reqs[i])]]
Split(req, cut) ==
    [sent |-> <<req>>,
     chunks |-> <<SubSeq(Encode(req), 1, cut), SubSeq(Encode(req), cut + 1, Len(Encode(req)))>>]
Raw(bytes) == [sent |-> <<>>, chunks |-> <<bytes>>]

Scripts(c) ==
    IF c = "c1"
    THEN {Whole(<<r>>) : r \in Requests}
         \cup {Whole(<<r, Probe>>) : r \in Requests}
         \cup {Each(<<r, Probe>>) : r \in CmdErrors \cup {ReqSet}}
         \cup {Split(r, cut) : r \in {ReqPing}, cut \in 1..(Len(Encode(ReqPing)) - 1)}
         \cup {Split(r, cut) : r \in {ReqSet}, cut \in 1..(Len(Encode(ReqSet)) - 1)}
         \cup {Raw(Inline)}
    ELSE {Each(<<ReqSetW, Probe>>)}

NoConn ==
    [st |-> "none", inbox |-> <<>>, pbuf |-> <<>>, pc |-> "read", cur |-> NoFrame,
     reply |-> NoFrame, route |-> "", wait |-> <<>>, changed |-> FALSE, sent |-> <<>>,
     partial |-> FALSE, started |-> 0, applied |-> 0, log |-> <<>>]

ConnIdle == conn = [c \in Conns |-> NoConn]

ConnInit ==
    \E s1 \in Scripts("c1"), s2 \in Scripts("c2") :
        conn = [c \in Conns |->
                  IF c = "c1" THEN [NoConn EXCEPT !.inbox = s1.chunks, !.sent = s1.sent]
                  ELSE [NoConn EXCEPT !.inbox = s2.chunks, !.sent = s2.sent]]

\* The clients of the server under a fair scheduler: c1 sets k with a
\* deadline, alone or followed by a GET, or sends an inline command, and c2
\* sets k and reads it.
ReqSetPx == Cmd(<<<<115, 69, 116>>, <<107>>, <<118>>, <<80, 88>>, <<49>>>>)    \* sEt k v PX 1

ServerScripts ==
    {Whole(<<ReqSetPx>>), Whole(<<ReqSetPx, Probe>>), Each(<<ReqSetPx, Probe>>), Raw(Inline)}

ServerInit ==
    \E s1 \in ServerScripts, s2 \in Scripts("c2") :
        conn = [c \in Conns |->
                  IF c = "c1" THEN [NoConn EXCEPT !.inbox = s1.chunks, !.sent = s1.sent]
                  ELSE [NoConn EXCEPT !.inbox = s2.chunks, !.sent = s2.sent]]

IsStrictPrefix(p, s) == Len(p) < Len(s) /\ p = SubSeq(s, 1, Len(p))

\* The bytes b in the parser's buffer are the beginning of the next request
\* of k, and not all of it.
Partial(k, b) ==
    /\ b # <<>>
    /\ k.started < Len(k.sent)
    /\ IsStrictPrefix(b, Encode(k.sent[k.started + 1]))

\* listener.accept() returns and handle is spawned.
Accept(c) ==
    /\ conn[c].st = "none"
    /\ conn' = [conn EXCEPT ![c].st = "open"]
    /\ UNCHANGED <<KV, EXP, now, dbfilename>>

\* socket.read(&mut buf): Ok(0) when the client has closed, Ok(n) with at
\* most BufSize bytes of the next segment, which are fed to the parser.
Read(c) ==
    /\ conn[c].st = "open"
    /\ conn[c].pc = "read"
    /\ IF conn[c].inbox = <<>>
       THEN conn' = [conn EXCEPT ![c].st = "closed"]
       ELSE LET seg == Head(conn[c].inbox)
                n == IF Len(seg) < BufSize THEN Len(seg) ELSE BufSize
                fed == conn[c].pbuf \o SubSeq(seg, 1, n)
            IN conn' = [conn EXCEPT
                          ![c].inbox = IF n = Len(seg) THEN Tail(conn[c].inbox)
                                       ELSE <<SubSeq(seg, n + 1, Len(seg))>> \o Tail(conn[c].inbox),
                          ![c].pbuf = fed,
                          ![c].pc = "parse",
                          ![c].partial = conn[c].partial \/ Partial(conn[c], fed)]
    /\ UNCHANGED <<KV, EXP, now, dbfilename>>

\* handle as it would be if it went on to the next frame while the
\* response is still to be written.
parse_before_write(k) == k.pc \in {"parse", "write"}

\* handle: parser.parse() is called after feed and after each response was
\* written.
NextFrameDue(k) == k.pc = "parse"

\* Result::unwrap as it would be if an Err were taken for Ok(None).
unwrap_or_none(r) == IF r.kind = "panic" THEN "panic" ELSE IF r.kind = "err" THEN "none" ELSE r.kind

\* parser.parse().unwrap(): Ok(Some(frame)), Ok(None), or a panic on Err.
unwrap(r) == IF r.kind \in {"err", "panic"} THEN "panic" ELSE r.kind

\* handle: while let Some(frame) = parser.parse().unwrap()
ParseStep(c) ==
    /\ conn[c].st = "open"
    /\ NextFrameDue(conn[c])
    /\ \E r \in {Parse(conn[c].pbuf)} :
          conn' = [conn EXCEPT ![c] =
                     CASE unwrap(r) = "frame" ->
                             [@ EXCEPT !.pbuf = r.buf, !.cur = r.frame, !.pc = "dispatch",
                                       !.started = @ + 1]
                       [] unwrap(r) = "none" -> [@ EXCEPT !.pbuf = r.buf, !.pc = "read"]
                       [] OTHER -> [@ EXCEPT !.pbuf = r.buf, !.st = "panicked"]]
    /\ UNCHANGED <<KV, EXP, now, dbfilename>>

\* handle: dispatch(frame).await, up to its return or, for a GET, up to the
\* release of the read guard of EXP.
Dispatch(c) ==
    /\ conn[c].st = "open"
    /\ conn[c].pc = "dispatch"
    /\ \E d \in {dispatch(conn[c].cur, KV, EXP, now, dbfilename)} :
          /\ KV' = d.kv
          /\ EXP' = d.exp
          /\ dbfilename' = d.name
          /\ conn' = [conn EXCEPT ![c] =
                        IF d.wait # <<>>
                        THEN [@ EXCEPT !.pc = "get_kv", !.wait = d.wait, !.route = d.route]
                        ELSE [@ EXCEPT !.pc = "write", !.reply = d.reply, !.route = d.route,
                                       !.changed = (d.kv # KV \/ d.exp # EXP),
                                       !.applied = @ + 1]]
    /\ UNCHANGED now

\* db::get under the read guard of KV
ConnGetKv(c) ==
    /\ conn[c].st = "open"
    /\ conn[c].pc = "get_kv"
    /\ conn' = [conn EXCEPT ![c].pc = "write", ![c].reply = get_value(KV, conn[c].wait[1]),
                            ![c].wait = <<>>, ![c].changed = FALSE, ![c].applied = @ + 1]
    /\ UNCHANGED <<KV, EXP, now, dbfilename>>

\* handle: socket.write_all(&response) returns Ok
Write(c) ==
    /\ conn[c].st = "open"
    /\ conn[c].pc = "write"
    /\ conn' = [conn EXCEPT
                  ![c].log = Append(@, [frame |-> conn[c].cur, reply |-> conn[c].reply,
                                        route |-> conn[c].route, changed |-> conn[c].changed,
                                        after |-> {d \in Conns : conn[d].st = "panicked"}]),
                  ![c].pc = "parse", ![c].cur = NoFrame, ![c].reply = NoFrame,
                  ![c].route = "", ![c].changed = FALSE]
    /\ UNCHANGED <<KV, EXP, now, dbfilename>>

\* handle: socket.write_all(&response) returns Err, and handle returns
WriteFail(c) ==
    /\ conn[c].st = "open"
    /\ conn[c].pc = "write"
    /\ conn' = [conn EXCEPT ![c].st = "reset"]
    /\ UNCHANGED <<KV, EXP, now, dbfilename>>

\* Time passes.
TickConn ==
    /\ now < MaxTime
    /\ now' = now + 1
    /\ UNCHANGED <<KV, EXP, dbfilename, conn>>

(***************************************************************************)
(* The codec under a client: the encodings of `frames` arrive in one or    *)
(* two chunks, each chunk is fed with feed(), and parse() is called at any *)
(* point in between.                                                       *)
(***************************************************************************)
RECURSIVE Flatten(_)
Flatten(ps) == IF ps = <<>> THEN <<>> ELSE Head(ps) \o Flatten(Tail(ps))

Wire == EncodeAll(frames)
Fed == Len(wire) - Len(Flatten(pieces))
Panicked == \E i \in 1..Len(hist) : hist[i].kind = "panic"

CodecInit ==
    /\ \E f \in Universe, second \in {<<>>} \cup {<<g>> : g \in Seconds} :
          frames = <<f>> \o second
    /\ wire = Wire
    /\ \E cut \in 1..Len(Wire) :
          pieces = IF cut = Len(Wire) THEN <<Wire>>
                   ELSE <<SubSeq(Wire, 1, cut), SubSeq(Wire, cut + 1, Len(Wire))>>
    /\ buf = <<>>
    /\ hist = <<>>
    /\ LengthIdle
    /\ KeyInit
    /\ LockInit
    /\ RdbIdle
    /\ ConnIdle

\* FrameParser::feed
Feed ==
    /\ pieces # <<>>
    /\ ~Panicked
    /\ buf' = buf \o Head(pieces)
    /\ pieces' = Tail(pieces)
    /\ UNCHANGED <<frames, wire, hist>>
    /\ UNCHANGED <<keyVars, lockVars, rdbVars, connVars, lenVars>>

\* FrameParser::parse
ParseCall ==
    /\ Len(hist) < MaxParses
    /\ ~Panicked
    /\ LET r == Parse(buf)
       IN /\ buf' = r.buf
          /\ hist' = Append(hist, [fed |-> Fed, before |-> buf, kind |-> r.kind,
                                   frame |-> r.frame, msg |-> r.msg, after |-> r.buf])
    /\ UNCHANGED <<frames, wire, pieces>>
    /\ UNCHANGED <<keyVars, lockVars, rdbVars, connVars, lenVars>>

CodecNext == Feed \/ ParseCall

SpecCodec == CodecInit /\ [][CodecNext]_vars

(***************************************************************************)
(* The codec on headers with a negative length or count: the six variants  *)
(* that carry one, with -1 and with -2, alone or followed by a frame.      *)
(***************************************************************************)
LengthTags == {TagOf[t] : t \in {"BulkString", "Array", "Set", "Push", "Map", "Attribute"}}
MinusTwo == <<45, 50>>      \* the text "-2"

Headers ==
    {<<t>> \o n \o CRLF \o rest :
        t \in LengthTags, n \in {MinusOne, MinusTwo}, rest \in {<<>>, Encode(IntF(7))}}

WireInit ==
    /\ frames = <<>>
    /\ wire \in Headers
    /\ \E cut \in 1..Len(wire) :
          pieces = IF cut = Len(wire) THEN <<wire>>
                   ELSE <<SubSeq(wire, 1, cut), SubSeq(wire, cut + 1, Len(wire))>>
    /\ buf = <<>>
    /\ hist = <<>>
    /\ LengthIdle
    /\ KeyInit
    /\ LockInit
    /\ RdbIdle
    /\ ConnIdle

SpecWire == WireInit /\ [][CodecNext]_vars

(***************************************************************************)
(* Properties of the codec, checked under SpecCodec.                       *)
(***************************************************************************)
\* What a caller can take for "incomplete": Ok(None), or an Err whose text
\* says so.
IncompleteMsgs ==
    {"Incomplete", "Incomplete array item", "Incomplete aggregate item",
     "Incomplete map key", "Incomplete map value"}

Incomplete(h) == h.kind = "none" \/ (h.kind = "err" /\ h.msg \in IncompleteMsgs)

\* The first parse() ran on a strict prefix of the encoding of the first frame.
OnStrictPrefix == Len(hist) >= 1 /\ hist[1].fed < Len(Encode(frames[1]))

\* C1: after feed(P) of a strict prefix P of a valid encoding on an empty
\* parser, parse() reports "incomplete" and the buffer still equals P; a
\* second parse() without feeding gives the same result and the same buffer.
C1_PrefixIncompleteUnchanged ==
    /\ OnStrictPrefix =>
          /\ Incomplete(hist[1])
          /\ hist[1].after = hist[1].before
    /\ (OnStrictPrefix /\ Len(hist) >= 2 /\ hist[2].fed = hist[1].fed) =>
          /\ hist[2].kind = hist[1].kind
          /\ hist[2].msg = hist[1].msg
          /\ hist[2].after = hist[1].after

\* C2: for every frame F and every split of encode(F) into two non-empty
\* pieces A and B, feed(A), parse(), feed(B), parse() ends with the second
\* parse() returning exactly F.
C2_SplitFeedYieldsFrame ==
    ( /\ Len(frames) = 1
      /\ Len(hist) >= 2
      /\ hist[1].fed \in 1..(Len(Wire) - 1)
      /\ hist[2].fed = Len(Wire) ) =>
          /\ hist[2].kind = "frame"
          /\ hist[2].frame = frames[1]

\* C3: for every frame F of primitives and the aggregates Array, Set, Push,
\* Map and Attribute, feeding encode(F) to an empty parser and calling
\* parse() returns F with the children in wire order and leaves the buffer
\* empty.
C3_RoundTrip ==
    ( /\ Len(frames) = 1
      /\ Len(hist) >= 1
      /\ hist[1].fed = Len(Wire) ) =>
          /\ hist[1].kind = "frame"
          /\ hist[1].frame = frames[1]
          /\ hist[1].after = <<>>


\* C30: when the buffer holds the encodings of F1 and F2 back to back, the
\* first parse() returns F1 and leaves exactly the encoding of F2, the
\* second parse() returns F2, and a third parse() returns Ok(None) on an
\* empty buffer; also when F1 is an aggregate with children.
C30_TwoFramesBackToBack ==
    ( /\ Len(frames) = 2
      /\ Len(hist) >= 1
      /\ hist[1].fed = Len(Wire) ) =>
          /\ hist[1].kind = "frame"
          /\ hist[1].frame = frames[1]
          /\ hist[1].after = Encode(frames[2])
          /\ Len(hist) >= 2 => (hist[2].kind = "frame" /\ hist[2].frame = frames[2])
          /\ Len(hist) >= 3 => (hist[3].kind = "none" /\ hist[3].after = <<>>)

\* The header line of the buffer b: its tag byte and the number after it.
HeaderLine(b) ==
    LET l == parse_line(b)
    IN IF l.found /\ l.line # <<>> /\ ValidUtf8(l.line) /\ ParseSigned(Tail(l.line)).ok
       THEN [ok |-> TRUE, tag |-> l.line[1], n |-> ParseSigned(Tail(l.line)).val]
       ELSE [ok |-> FALSE, tag |-> 0, n |-> 0]

VariantOf(byte) == CHOOSE t \in DOMAIN TagOf : TagOf[t] = byte

\* C23: for BulkString, Array, Set, Push, Map and Attribute, a length or
\* count of -1 parses to the null form of the variant, and any other
\* negative length or count makes parse() return an error, never a frame.
C23_OnlyMinusOneIsNull ==
    \A i \in 1..Len(hist) :
        \A h \in {HeaderLine(hist[i].before)} :
            (h.ok /\ h.tag \in LengthTags /\ h.n < 0) =>
                IF h.n = -1
                THEN /\ hist[i].kind = "frame"
                     /\ hist[i].frame = Frame(VariantOf(h.tag), TRUE, <<>>)
                ELSE hist[i].kind = "err"
(***************************************************************************)
(* The keyspace specification.                                             *)
(***************************************************************************)
Init ==
    /\ frames = <<>>
    /\ wire = <<>>
    /\ ConnIdle
    /\ pieces = <<>>
    /\ buf = <<>>
    /\ hist = <<>>
    /\ LengthIdle
    /\ KeyInit
    /\ LockInit
    /\ RdbIdle

Next ==
    \/ \E args \in SetArgLists : SetCmd(args) /\ UNCHANGED <<codecVars, lockVars, rdbVars, connVars, lenVars>>
    \/ \E args \in GetArgLists : GetStart(args) /\ UNCHANGED <<codecVars, lockVars, rdbVars, connVars, lenVars>>
    \/ GetFinish /\ UNCHANGED <<codecVars, lockVars, rdbVars, connVars, lenVars>>
    \/ \E args \in KeysArgLists : KeysCmd(args) /\ UNCHANGED <<codecVars, lockVars, rdbVars, connVars, lenVars>>
    \/ Purge /\ UNCHANGED <<codecVars, lockVars, rdbVars, connVars, lenVars>>
    \/ \E rdb \in RdbDatabases, clockOk \in BOOLEAN : Load(rdb, clockOk) /\ UNCHANGED <<codecVars, lockVars, rdbVars, connVars, lenVars>>
    \/ Tick /\ UNCHANGED <<codecVars, lockVars, rdbVars, connVars, lenVars>>

Spec == Init /\ [][Next]_vars


(***************************************************************************)
(* The keyspace under SET and load_from_rdb.                               *)
(***************************************************************************)
LoadNext ==
    \/ \E args \in {<<Opt(k), Opt(<<118>>)>> \o o : k \in ByteKeys, o \in {<<>>, <<Opt(OptPX), Opt(<<49>>)>>}} :
          SetCmd(args) /\ UNCHANGED <<codecVars, lockVars, rdbVars, connVars, lenVars>>
    \/ \E rdb \in LoadDatabases, clockOk \in BOOLEAN :
          Load(rdb, clockOk) /\ UNCHANGED <<codecVars, lockVars, rdbVars, connVars, lenVars>>
    \/ Tick /\ UNCHANGED <<codecVars, lockVars, rdbVars, connVars, lenVars>>

SpecLoad == Init /\ [][LoadNext]_vars

(***************************************************************************)
(* The keyspace under its locks, with three connections.  The connections  *)
(* find the keyspace empty or as two SETs left it.                         *)
(***************************************************************************)
idleVars == <<lenio, conn, frames, wire, pieces, buf, hist, pend, last, fresh, disk, dbfilename, out>>

LocksInit ==
    /\ frames = <<>>
    /\ wire = <<>>
    /\ ConnIdle
    /\ pieces = <<>>
    /\ buf = <<>>
    /\ hist = <<>>
    /\ LengthIdle
    /\ now = 0
    /\ pend = NoPend
    /\ last = Done("none", <<>>, NoFrame)
    /\ fresh = [k \in StrKeys |-> <<>>]
    /\ task = [t \in Tasks |-> IdleTask]
    /\ kvLock = FreeLock
    /\ expLock = FreeLock
    /\ taken = [k \in StrKeys |-> <<>>]
    /\ RdbIdle
    /\ \E s \in {[kv |-> EmptyKV, exp |-> EmptyEXP], [kv |-> TwoKeys.kv, exp |-> TwoKeys.exp]} :
          /\ KV = s.kv
          /\ EXP = s.exp
          /\ written = WrittenIn(s.kv)

LocksNext ==
    \/ \E t \in Tasks : \E c \in Menu(t) : Start(t, c) /\ UNCHANGED idleVars
    \/ \E t \in Tasks : SetKv(t) /\ UNCHANGED idleVars
    \/ \E t \in Tasks : SetExp(t) /\ UNCHANGED idleVars
    \/ \E t \in Tasks : SetBody(t) /\ UNCHANGED idleVars
    \/ \E t \in Tasks : GetExp(t) /\ UNCHANGED idleVars
    \/ \E t \in Tasks : GetKv(t) /\ UNCHANGED idleVars
    \/ \E t \in Tasks : PurgeNow(t) /\ UNCHANGED idleVars
    \/ \E t \in Tasks : PurgeExp(t) /\ UNCHANGED idleVars
    \/ \E t \in Tasks : PurgeKv(t) /\ UNCHANGED idleVars
    \/ \E t \in Tasks : PurgeBody(t) /\ UNCHANGED idleVars
    \/ \E t \in Tasks : SaveClock(t) /\ UNCHANGED idleVars
    \/ \E t \in Tasks : SaveKv(t) /\ UNCHANGED idleVars
    \/ \E t \in Tasks : SaveExp(t) /\ UNCHANGED idleVars
    \/ \E t \in Tasks : SaveIter(t) /\ UNCHANGED idleVars
    \/ \E t \in Tasks : SaveEnd(t) /\ UNCHANGED idleVars
    \/ \E t \in Tasks : LoadKv(t) /\ UNCHANGED idleVars
    \/ \E t \in Tasks : LoadExp(t) /\ UNCHANGED idleVars
    \/ \E t \in Tasks : \E rdb \in RdbDatabases : LoadBody(t, rdb) /\ UNCHANGED idleVars
    \/ TickLocks /\ UNCHANGED idleVars

SpecLocks == LocksInit /\ [][LocksNext]_vars

(***************************************************************************)
(* The snapshot file under save and load.                                  *)
(***************************************************************************)
restVars == <<lenio, conn, frames, wire, pieces, buf, hist, pend, last, fresh, task, kvLock, expLock, taken, written>>

RdbStart ==
    /\ frames = <<>>
    /\ wire = <<>>
    /\ ConnIdle
    /\ pieces = <<>>
    /\ buf = <<>>
    /\ hist = <<>>
    /\ LengthIdle
    /\ KeyInit
    /\ LockInit
    /\ RdbInit

RdbNext ==
    \/ \E name \in Dbfilenames : SetDbfilename(name) /\ UNCHANGED restVars
    \/ \E k \in {<<107>>, <<255>>}, px \in {<<>>, <<1>>} : RdbSet(k, <<118>>, px) /\ UNCHANGED restVars
    \/ \E order \in Orders(StrKeys) \cup Orders({<<107>>}) \cup Orders({Utf8Lossy(<<255>>)}) \cup {<<>>},
          fail \in SaveFailures \cup {"none"}, cut \in {9} :
             Save(order, fail, cut) /\ UNCHANGED restVars
    \/ Load2 /\ UNCHANGED restVars
    \/ \E pos \in 0..MaxAlter, byte \in {5} : Alter(pos, byte) /\ UNCHANGED restVars
    \/ TickRdb /\ UNCHANGED restVars

SpecRdb == RdbStart /\ [][RdbNext]_vars

\* Loading snapshots that hold compressed strings and expiry records.
SnapshotStart ==
    /\ frames = <<>>
    /\ wire = <<>>
    /\ ConnIdle
    /\ pieces = <<>>
    /\ buf = <<>>
    /\ hist = <<>>
    /\ LengthIdle
    /\ KeyInit
    /\ LockInit
    /\ dbfilename = DefaultDbfilename
    /\ \E f \in LzfFiles \cup ExpiryFiles :
          disk = [p \in Paths |-> IF p = DefaultDbfilename THEN f ELSE NoFile]
    /\ out = NoOut

SnapshotNext ==
    \/ \E name \in Dbfilenames : SetDbfilename(name) /\ UNCHANGED restVars
    \/ Load2 /\ UNCHANGED restVars
    \/ TickRdb /\ UNCHANGED restVars

SpecSnapshot == SnapshotStart /\ [][SnapshotNext]_vars

\* Lengths written and read back.
lengthRest == <<conn, frames, wire, pieces, buf, hist, KV, EXP, now, pend, last, fresh,
                task, kvLock, expLock, taken, written, disk, dbfilename, out>>

LengthStart ==
    /\ frames = <<>>
    /\ wire = <<>>
    /\ ConnIdle
    /\ pieces = <<>>
    /\ buf = <<>>
    /\ hist = <<>>
    /\ KeyInit
    /\ LockInit
    /\ RdbIdle
    /\ LengthInit

LengthNext ==
    \/ WriteLength /\ UNCHANGED lengthRest
    \/ ReadLength /\ UNCHANGED lengthRest

SpecLength == LengthStart /\ [][LengthNext]_vars

(***************************************************************************)
(* The server with two connections.                                        *)
(***************************************************************************)
connRest == <<lenio, frames, wire, pieces, buf, hist, pend, last, fresh,
              task, kvLock, expLock, taken, written, disk, out>>

ConnStart ==
    /\ frames = <<>>
    /\ wire = <<>>
    /\ pieces = <<>>
    /\ buf = <<>>
    /\ hist = <<>>
    /\ LengthIdle
    /\ KeyInit
    /\ LockInit
    /\ RdbIdle
    /\ ConnInit

\* The steps of the task of connection c, and of the listener for it.
ConnStep(c) ==
    \/ Accept(c) /\ UNCHANGED connRest
    \/ Read(c) /\ UNCHANGED connRest
    \/ ParseStep(c) /\ UNCHANGED connRest
    \/ Dispatch(c) /\ UNCHANGED connRest
    \/ ConnGetKv(c) /\ UNCHANGED connRest
    \/ Write(c) /\ UNCHANGED connRest
    \/ WriteFail(c) /\ UNCHANGED connRest

ConnNext ==
    \/ \E c \in Conns : ConnStep(c)
    \/ TickConn /\ UNCHANGED connRest

SpecConn == ConnStart /\ [][ConnNext]_vars

ServerStart ==
    /\ frames = <<>>
    /\ wire = <<>>
    /\ pieces = <<>>
    /\ buf = <<>>
    /\ hist = <<>>
    /\ LengthIdle
    /\ KeyInit
    /\ LockInit
    /\ RdbIdle
    /\ ServerInit

\* The task of c, or the listener for it, has a step to take: the
\* enabling condition of ConnStep(c).
Runnable(c) == conn[c].st \in {"none", "open"}

\* Weak fairness of ConnStep(c), with its enabling condition written out.
Scheduled(c) == []<>(~Runnable(c)) \/ []<><<ConnStep(c)>>_vars

\* The runtime runs every task that can take a step, and time passes.
SpecServer ==
    /\ ServerStart
    /\ [][ConnNext]_vars
    /\ \A c \in Conns : Scheduled(c)
    /\ WF_vars(TickConn /\ UNCHANGED connRest)
(***************************************************************************)
(* Properties of the keyspace and of SET and GET, checked under Spec.      *)
(***************************************************************************)
LastKey == Utf8Lossy(last.args[1].val)
LastSet == last.op = "set" /\ set_args(last.args).err = <<>>
LastGet == last.op = "get" /\ get_args(last.args) = <<>>
Carries(args, name) == \E i \in 3..Len(args) : IsOption(args[i], name)
OtherKeys(k) == StrKeys \ {k}

\* C4: in every reachable state, every key of the expiry map EXP is a key
\* of the value map KV.
C4_ExpiryKeysHaveValues == \A k \in StrKeys : EXP[k] # <<>> => KV[k] # Absent

\* C4 witness: a key with a deadline was loaded from a snapshot, a purge ran.
C4_Witness ==
    /\ last.op = "purge"
    /\ \E k \in StrKeys : EXP[k] # <<>> /\ KV[k].type = "List"
    /\ \E k \in StrKeys : EXP[k] = <<>> /\ KV[k] = Absent

\* C5: a get(k) that reads the clock after the deadline of k replies the
\* null bulk, whether or not k is still in KV.
C5_LateGetIsNull == (LastGet /\ last.late) => last.reply = NullBulk

\* C5 witness: such a GET was answered while the key was still in both maps.
C5_Witness ==
    /\ LastGet
    /\ last.late
    /\ KV[LastKey] # Absent
    /\ EXP[LastKey] # <<>>

\* C6: after a SET k v without NX/XX, a GET k with no SET, purge or load
\* of k in between, and before the deadline if a TTL was given, replies the
\* bulk string v.
C6_GetAfterSet ==
    (LastGet /\ last.fresh # <<>> /\ ~last.dirty /\ ~last.late) =>
        last.reply = Frame("BulkString", FALSE, last.fresh[1])

\* C6 witness: such a GET of a key that was set with a TTL, answered with
\* the value before the deadline.
C6_Witness ==
    /\ LastGet
    /\ last.fresh # <<>>
    /\ ~last.dirty
    /\ ~last.late
    /\ EXP[LastKey] # <<>>
    /\ last.reply = Frame("BulkString", FALSE, last.fresh[1])

\* C7: SET k v NX, with or without EX/PX, on a key present in KV leaves the
\* value and the deadline of k, and every other key, as they were.
C7_NxOnPresentKeyChangesNothing ==
    [][( /\ last'.op = "set"
         /\ SetCmd(last'.args)
         /\ set_args(last'.args).err = <<>>
         /\ set_args(last'.args).nx
         /\ KV[Utf8Lossy(last'.args[1].val)] # Absent ) => (KV' = KV /\ EXP' = EXP)]_vars

\* C7 witness: SET k v NX PX 1 was answered for a key that was present,
\* beside another key that is present.
C7_Witness ==
    /\ LastSet
    /\ set_args(last.args).nx
    /\ set_args(last.args).px # <<>>
    /\ last.existed
    /\ \E k \in OtherKeys(LastKey) : KV[k] # Absent

\* C8: SET k v XX, with or without EX/PX, on a key that is not in KV leaves
\* k absent from KV and from EXP.
C8_XxOnMissingKeyStaysMissing ==
    [][( /\ last'.op = "set"
         /\ SetCmd(last'.args)
         /\ set_args(last'.args).err = <<>>
         /\ set_args(last'.args).xx
         /\ KV[Utf8Lossy(last'.args[1].val)] = Absent ) =>
             ( /\ KV'[Utf8Lossy(last'.args[1].val)] = Absent
               /\ EXP'[Utf8Lossy(last'.args[1].val)] = <<>> )]_vars

\* C8 witness: SET k v XX PX 1 was answered for a key that was missing.
C8_Witness ==
    /\ LastSet
    /\ set_args(last.args).xx
    /\ ~set_args(last.args).nx
    /\ set_args(last.args).px # <<>>
    /\ ~last.existed

\* C9: a SET that does not store because of NX or XX replies the null
\* bulk; +OK is replied only when the value was stored.
C9_NoStoreRepliesNullBulk ==
    LastSet => /\ ~last.stored => last.reply = NullBulk
               /\ last.reply = OkF => last.stored

\* C10: a SET that carries both NX and XX, or both EX and PX, is answered
\* with an Error frame that begins with "ERR " and stores nothing.
C10_ConflictingOptionsAreErrors ==
    ( /\ last.op = "set"
      /\ Len(last.args) >= 2
      /\ \/ Carries(last.args, OptNX) /\ Carries(last.args, OptXX)
         \/ Carries(last.args, OptEX) /\ Carries(last.args, OptPX) ) =>
            /\ last.reply.tag = "Error"
            /\ Len(last.reply.val) >= 4
            /\ SubSeq(last.reply.val, 1, 4) = <<69, 82, 82, 32>>
            /\ ~last.stored

\* C11: after a successful SET without EX/PX the key has no entry in EXP,
\* whatever deadline it had; after a successful SET with EX/PX the deadline
\* of the key is now + duration of that SET.
C11_SetReplacesDeadline ==
    [][( /\ last'.op = "set"
         /\ SetCmd(last'.args)
         /\ set_args(last'.args).err = <<>>
         /\ last'.stored ) =>
            LET p == set_args(last'.args)
                k == Utf8Lossy(last'.args[1].val)
            IN IF p.px # <<>> THEN EXP'[k] = <<now + p.px[1]>>
               ELSE IF p.ex # <<>> THEN EXP'[k] = <<now + p.ex[1] * 1000>>
               ELSE EXP'[k] = <<>>]_vars

\* C11 witness: a SET without EX/PX was stored for a key that had a deadline.
C11_Witness ==
    /\ LastSet
    /\ last.stored
    /\ last.hadTtl
    /\ set_args(last.args).ex = <<>>
    /\ set_args(last.args).px = <<>>
    /\ EXP[LastKey] = <<>>

\* C12: KEYS * returns each key that is present and whose deadline, if
\* any, has not passed exactly once, and no key whose deadline has passed,
\* even when purge has not removed it yet.
C12_KeysStarReturnsLiveKeys ==
    (last.op = "keys" /\ last.args = <<Opt(Star)>>) =>
        /\ last.reply.tag = "Array"
        /\ {last.reply.kids[i].val : i \in 1..Len(last.reply.kids)} = last.live
        /\ Len(last.reply.kids) = Cardinality(last.live)


\* C31: for a key whose deadline has passed and that is still in both maps
\* (GET replies the null bulk), SET k v NX stores v and SET k v XX stores
\* nothing.
C31_ExistenceTestAgreesWithGet ==
    [][( /\ last'.op = "set"
         /\ SetCmd(last'.args)
         /\ set_args(last'.args).err = <<>>
         /\ KV[Utf8Lossy(last'.args[1].val)] # Absent
         /\ get_expired(EXP, now, Utf8Lossy(last'.args[1].val)) ) =>
            LET p == set_args(last'.args)
                k == Utf8Lossy(last'.args[1].val)
            IN /\ (p.nx /\ ~p.xx) => (last'.stored /\ KV'[k] = StringV(last'.args[2].val))
               /\ (p.xx /\ ~p.nx) => (~last'.stored /\ KV'[k] = KV[k] /\ EXP'[k] = EXP[k])]_vars

\* The entry e of a snapshot is kept by a load at wall-clock time wall.
Kept(e, wall) == e # NoEntry /\ (e.expiry = <<>> \/ e.expiry[1] > wall)

\* C32: after a successful load_from_rdb the keyspace holds exactly the
\* entries of the snapshot whose expiry is absent or later than the wall
\* clock: every other key, in memory before or not, is absent from both
\* maps, and a kept expiry e becomes the deadline now + (e - wall clock).
C32_LoadReplacesKeyspace ==
    [][\A rdb \in LoadDatabases :
          (Load(rdb, TRUE) /\ last'.reply = OkF) =>
              \A k \in StrKeys :
                  IF Kept(rdb[k], WallClock(now))
                  THEN /\ KV'[k] = rdb[k].value
                       /\ EXP'[k] = IF rdb[k].expiry = <<>> THEN <<>>
                                    ELSE <<now + (rdb[k].expiry[1] - WallClock(now))>>
                  ELSE KV'[k] = Absent /\ EXP'[k] = <<>>]_vars

\* A load at time 1 has kept the String that expires at 5002, with the
\* deadline 2, and nothing for the other key.
C32_Witness ==
    /\ last.op = "load"
    /\ last.reply = OkF
    /\ now = 1
    /\ KV[Utf8Lossy(<<107>>)] = StringV(<<119>>)
    /\ EXP[Utf8Lossy(<<107>>)] = <<2>>
    /\ KV[Utf8Lossy(<<255>>)] = Absent
    /\ EXP[Utf8Lossy(<<255>>)] = <<>>

\* The key k holds the String v under a deadline that has not passed.
HeldUntilDeadline(k) == EXP[k] # <<>> /\ now <= EXP[k][1] /\ KV[k].type = "String"

\* C36: a GET of k that is answered while k holds a String v under a
\* deadline that has not passed replies the bulk string v, and no purge
\* removes a key whose deadline has not passed.
C36_NoKeyReportedAbsentEarly ==
    [][/\ GetFinish =>
             (HeldUntilDeadline(Utf8Lossy(pend.args[1].val)) =>
                 last'.reply = Frame("BulkString", FALSE, KV[Utf8Lossy(pend.args[1].val)].data[1]))
       /\ \A args \in GetArgLists :
             (GetStart(args) /\ pend' = pend /\ get_args(args) = <<>>) =>
                 (HeldUntilDeadline(Utf8Lossy(args[1].val)) =>
                     last'.reply = Frame("BulkString", FALSE, KV[Utf8Lossy(args[1].val)].data[1]))
       /\ Purge =>
             \A k \in StrKeys :
                 (EXP[k] # <<>> /\ now <= EXP[k][1]) => (KV'[k] = KV[k] /\ EXP'[k] = EXP[k])]_vars

\* A GET was answered with the value of a key at its deadline, after a
\* purge had run on the keyspace.
C36_Witness ==
    /\ LastGet
    /\ ~last.late
    /\ EXP[LastKey] = <<now>>
    /\ now > 0
    /\ KV[LastKey].type = "String"
    /\ last.reply = Frame("BulkString", FALSE, KV[LastKey].data[1])
    /\ \E k \in OtherKeys(LastKey) : KV[k] = Absent

\* C37: every element of the array KEYS replies, whatever the number and
\* shape of its arguments, is a key present in the value map, and with one
\* argument a key that matches that pattern.
C37_KeysReturnsStoredKeys ==
    (last.op = "keys" /\ last.reply.tag = "Array") =>
        \A i \in 1..Len(last.reply.kids) :
            /\ last.reply.kids[i].val \in {k \in StrKeys : KV[k] # Absent}
            /\ Len(last.args) = 1 => glob_matches(last.args[1].val, last.reply.kids[i].val)

(***************************************************************************)
(* Claims about the keyspace under its locks.                              *)
(***************************************************************************)
\* What a get of k answers when it reads both maps of one keyspace state
\* at time t.
AtomicGet(kv, exp, t, k) ==
    IF exp[k] # <<>> /\ t > exp[k][1] THEN NullBulk ELSE get_value(kv, k)

FinishedGet(t) == task[t].op = "get" /\ task[t].pc = "idle"

SetWrote(k) == {Frame("BulkString", FALSE, v) : v \in written[k]}
Loadable(k) == {get_value([j \in StrKeys |-> rdb[j].value], k) : rdb \in RdbDatabases} \ {NullBulk}

\* C14: with connections that issue SET k <n> concurrently, every reply of
\* GET k is the null bulk or one whole value that was written to k, and a
\* GET issued when every SET has returned answers the value of the SET that
\* took the write lock last.
C14_GetSeesOneWrittenValue ==
    \A t \in Tasks :
        FinishedGet(t) =>
            /\ task[t].reply \in {NullBulk} \cup SetWrote(Utf8Lossy(task[t].key))
                                            \cup Loadable(Utf8Lossy(task[t].key))
            /\ (task[t].quiet /\ task[t].seen # <<>>) =>
                   task[t].reply = Frame("BulkString", FALSE, task[t].seen[1])

\* Two connections have SET k to different values with no TTL, and a GET
\* issued after both returned answered the value of the later one.
C14_Witness ==
    \E t \in Tasks :
        /\ FinishedGet(t)
        /\ task[t].quiet
        /\ task[t].seen # <<>>
        /\ written[Utf8Lossy(task[t].key)] = Vals
        /\ EXP[Utf8Lossy(task[t].key)] = <<>>
        /\ \A u \in Tasks \ {t} : task[u].runs = 1
        /\ task[t].reply = Frame("BulkString", FALSE, task[t].seen[1])

Saving(t) == task[t].op = "save" /\ task[t].pc = "save_iter"
Records(t) == {task[t].recs[i] : i \in 1..Len(task[t].recs)}
Waiting(u) == task[u].pc \in {"set_kv", "set_exp", "purge_exp", "purge_kv", "load_kv", "load_exp"}

\* C18: the records one save writes are the keyspace of one single instant:
\* while the save iterates, every record written so far carries the value
\* and the expiry slot its key has now, and when the loop ends the records
\* are exactly the keys present, once each.  Writers that run beside the
\* save wait until it has returned.
C18_SaveIsOneSnapshot ==
    \A t \in Tasks :
        Saving(t) =>
            /\ \A r \in Records(t) : r.value = KV[r.key] /\ r.slot = EXP[r.key]
            /\ task[t].todo = <<>> =>
                  /\ {r.key : r \in Records(t)} = {k \in StrKeys : KV[k] # Absent}
                  /\ Len(task[t].recs) = Cardinality({k \in StrKeys : KV[k] # Absent})

\* A save has written two records, one with a 0xFC stamp, while a writer
\* waits for a lock.
C18_Witness ==
    \E t \in Tasks :
        /\ Saving(t)
        /\ task[t].todo = <<>>
        /\ Len(task[t].recs) = 2
        /\ \E r \in Records(t) : r.expiry # <<>>
        /\ \E u \in Tasks \ {t} : Waiting(u) /\ task[u].op = "set"

\* C19: save writes no value record for a key whose deadline has passed
\* when the record is written, and every key with a deadline in the expiry
\* map is written with a 0xFC expiry record.
C19_SaveWritesNoExpiredKey ==
    \A t \in Tasks :
        task[t].op = "save" =>
            \A r \in Records(t) :
                r.slot # <<>> => (r.at <= r.slot[1] /\ r.expiry # <<>>)

\* The task t holds a guard of the lock.
Holds(lock, t) == lock.w = <<t>> \/ t \in lock.r

\* The task t stands at an acquisition of the lock that cannot return.
StuckOnKv(t) ==
    \/ task[t].pc \in {"set_kv", "purge_kv", "load_kv"} /\ ~CanWrite(kvLock)
    \/ task[t].pc \in {"get_kv", "save_kv"} /\ ~CanRead(kvLock)
StuckOnExp(t) ==
    \/ task[t].pc \in {"set_exp", "purge_exp", "load_exp"} /\ ~CanWrite(expLock)
    \/ task[t].pc \in {"get_exp", "save_exp"} /\ ~CanRead(expLock)

\* C27: no interleaving of the lock acquisitions of concurrently running
\* set, get, purge, save and load_from_rdb calls reaches a state where one
\* task holds the value-map lock and waits for the expiry-map lock while
\* another holds the expiry-map lock and waits for the value-map lock.
C27_NoLockCycle ==
    ~\E t, u \in Tasks :
        /\ t # u
        /\ Holds(kvLock, t) /\ StuckOnExp(t)
        /\ Holds(expLock, u) /\ StuckOnKv(u)

\* C28: a purge that read the clock as c removes from both maps every key
\* whose deadline is less than or equal to c, and leaves every other key
\* with its value and its deadline.
C28_PurgeRemovesDueKeys ==
    [][\A t \in Tasks :
          (task[t].pc = "purge_body" /\ task'[t].pc # "purge_body") =>
              \A k \in StrKeys :
                  IF EXP[k] # <<>> /\ EXP[k][1] <= task[t].t0[1]
                  THEN KV'[k] = Absent /\ EXP'[k] = <<>>
                  ELSE KV'[k] = KV[k] /\ EXP'[k] = EXP[k]]_vars


(***************************************************************************)
(* Claims about the snapshot file.                                         *)
(***************************************************************************)
SavedNow == out.op = "save" /\ out.ok
PlainTypes == {"Absent", "String", "List", "Set"}

\* C15: for a keyspace of String, List and Set values with no deadline in
\* the past, save followed by a load of the written file succeeds and gives
\* back the same keys, the same values, and for each key the same presence
\* of a deadline with the same remaining time up to 1 ms.
C15_SaveThenLoadRestores ==
    ( /\ SavedNow
      /\ \A k \in StrKeys : KV[k].type \in PlainTypes
      /\ \A k \in StrKeys : EXP[k] # <<>> => EXP[k][1] > now ) =>
        \A r \in {load(disk[dbfilename])} :
            /\ r.ok
            /\ \A i \in 1..Len(r.entries) : r.entries[i].key \in StrKeys
            /\ \A l \in {load_from_rdb(AsDatabase(r.entries), now, WallClock(now), TRUE)} :
                  /\ l.kv = KV
                  /\ \A k \in StrKeys :
                        /\ (l.exp[k] = <<>>) = (EXP[k] = <<>>)
                        /\ l.exp[k] # <<>> => l.exp[k][1] - EXP[k][1] \in {-1, 0, 1}

\* The files a and b are the same but for one byte of the data or for the
\* trailer.
OneByteApart(a, b) ==
    /\ a.exists /\ b.exists
    /\ Len(a.data) = Len(b.data)
    /\ \/ a.sum = b.sum /\ Cardinality({i \in 1..Len(a.data) : a.data[i] # b.data[i]}) = 1
       \/ a.sum # b.sum /\ a.data = b.data

\* C16: load succeeds only if the trailer is the checksum of every byte of
\* the file before it, and a file that differs in one single byte from a
\* file that loads does not load.
C16_ChecksumCoversEveryByte ==
    (out.op = "load" /\ out.before.exists /\ out.ok) =>
        /\ out.before.sum = <<out.before.data>>
        /\ \A s \in Snapshots : (OneByteApart(s, out.before) /\ load(s).ok) => ~out.ok

\* C17: when save returns an error, the file at <dir>/<dbfilename> has the
\* content it had before the save started (here: for a target that
\* existed), whatever dbfilename is configured.
C17_FailedSaveKeepsTarget ==
    (out.op = "save" /\ ~out.ok /\ out.before.exists) => disk[dbfilename] = out.before

\* C20: a value loaded from a record with an opaque-payload opcode is saved
\* as a record of the same key with the same opcode and the same payload.
C20_OpaqueRecordsRoundTrip ==
    SavedNow =>
        \A i \in 1..Len(out.loaded) :
            out.loaded[i].opcode \in OpaqueOpcodes =>
                \E j \in 1..Len(out.recs) :
                    /\ out.recs[j].key = out.loaded[i].key
                    /\ out.recs[j].opcode = out.loaded[i].opcode
                    /\ out.recs[j].data = out.loaded[i].value.data


\* C34: the first nine bytes save writes are "REDIS" and the four ASCII
\* digits "0011", the header parse verifies and accepts.
C34_SaveWritesAsciiVersion ==
    SavedNow =>
        /\ disk[dbfilename].exists
        /\ Len(disk[dbfilename].data) >= 9
        /\ SubSeq(disk[dbfilename].data, 1, 9) = Magic \o <<48, 48, 49, 49>>
        /\ load(disk[dbfilename]).msg \notin {"Invalid RDB magic string", "Unsupported RDB version"}

\* C35: loading a String record whose key and value are each a length
\* encoding followed by that many bytes (the file Redis writes for SET k v)
\* succeeds and yields exactly that key with String(value).
C35_PlainStringRecordLoads ==
    (out.op = "load" /\ out.before = RedisFile) =>
        /\ out.ok
        /\ Len(out.loaded) = 1
        /\ out.loaded[1].key = <<107>>
        /\ out.loaded[1].value = StringV(<<118>>)
        /\ out.loaded[1].expiry = <<>>

\* The LZF stream c from its byte i + 1 on, decoded onto output as the format
\* has it: a control byte below 0x20 is a run of ctrl + 1 literal bytes;
\* any other is a back reference of len + 2 bytes, len the high 3 bits, or
\* 7 plus the extension byte when they are 7, copied one byte at a time.
RECURSIVE LzfCopied(_, _, _)
LzfCopied(output, from, n) ==
    IF n = 0 THEN output ELSE LzfCopied(Append(output, output[from]), from + 1, n - 1)

RECURSIVE LzfDecoded(_, _, _)
LzfDecoded(c, i, output) ==
    IF i >= Len(c) THEN [ok |-> TRUE, data |-> output]
    ELSE LET ctrl == c[i + 1]
             ext == ctrl \div 32 = 7
             len == IF ext THEN 7 + c[i + 2] ELSE ctrl \div 32
             at == IF ext THEN i + 3 ELSE i + 2           \* the offset byte
             offset == (ctrl % 32) * 256 + c[at] + 1
         IN IF ctrl < 32
            THEN IF i + 1 + ctrl + 1 > Len(c) THEN [ok |-> FALSE, data |-> <<>>]
                 ELSE LzfDecoded(c, i + ctrl + 2, output \o SubSeq(c, i + 2, i + ctrl + 2))
            ELSE IF at > Len(c) \/ offset > Len(output) THEN [ok |-> FALSE, data |-> <<>>]
            ELSE LzfDecoded(c, at, LzfCopied(output, Len(output) - offset + 1, len + 2))

\* C39: a compressed string loads as its LZF stream decodes: ctrl + 1
\* literal bytes for a control byte below 0x20, and for any other len + 2
\* bytes copied one at a time from the output (so over bytes the copy has
\* just written), len being the high 3 bits or 7 plus the extension byte.
C39_LzfBackReferenceLength ==
    out.op = "load" =>
      \A c \in LzfStreams :
        (out.before = LzfFileOf[c] /\ LzfDecoded(c, 0, <<>>).ok) =>
            /\ out.ok
            /\ Len(out.loaded) = 1
            /\ out.loaded[1].value = StringV(LzfDecoded(c, 0, <<>>).data)

\* The value records of recs in their order, each with the expiry the
\* format gives it: that of the last expiry record since the value record
\* before it, 0xFD in seconds times 1000, or none.
RECURSIVE Expiring(_, _)
Expiring(recs, pending) ==
    IF recs = <<>> THEN <<>>
    ELSE LET r == Head(recs)
         IN CASE r.op = 252 -> Expiring(Tail(recs), <<r.n>>)
              [] r.op = 253 -> Expiring(Tail(recs), <<r.n * 1000>>)
              [] r.op \in {250, 251, 254} -> Expiring(Tail(recs), pending)
              [] OTHER -> <<[key |-> r.key, items |-> r.items, expiry |-> pending]>>
                              \o Expiring(Tail(recs), <<>>)

\* C33: in a loaded snapshot an expiry record (0xFC, or 0xFD in seconds
\* times 1000) is the expiry of the first value record after it and of no
\* later one; aux, resize and selector records in between do not clear it.
C33_ExpiryAppliesToNextValue ==
    out.op = "load" =>
      \A recs \in ExpiryRecords :
        out.before = ExpiryFileOf[recs] =>
            /\ out.ok
            /\ Len(out.loaded) = Len(Expiring(recs, <<>>))
            /\ \A i \in 1..Len(out.loaded) :
                  /\ out.loaded[i].key = Expiring(recs, <<>>)[i].key
                  /\ out.loaded[i].value.data = Expiring(recs, <<>>)[i].items
                  /\ out.loaded[i].expiry = Expiring(recs, <<>>)[i].expiry

\* A snapshot is loaded in which 0xFD, then aux, then two value records
\* follow a first value record: three entries, the second with 9000.
C33_Witness ==
    /\ out.op = "load"
    /\ out.ok
    /\ Len(out.loaded) = 3
    /\ out.loaded[1].expiry = <<8000>>
    /\ out.loaded[2].expiry = <<9000>>
    /\ out.loaded[3].expiry = <<>>

\* C38: for a length below 2^32, write_rdb_length appends 1 byte below 64,
\* 2 bytes below 16384 and 5 bytes otherwise, and read_rdb_length at those
\* bytes returns the length and stops right after them; for 2^32 and more
\* write_rdb_length returns an error and appends nothing.
C38_LengthRoundTrip ==
    /\ lenio.st \in {"written", "read"} =>
          IF lenio.hi >= 65536
          THEN ~lenio.wrote.ok /\ lenio.buffer = lenio.before
          ELSE /\ lenio.wrote.ok
               /\ lenio.buffer = lenio.before \o lenio.wrote.bytes
               /\ Len(lenio.wrote.bytes) = IF lenio.hi = 0 /\ lenio.lo < 64 THEN 1
                                           ELSE IF lenio.hi = 0 /\ lenio.lo < 16384 THEN 2
                                           ELSE 5
    /\ lenio.st = "read" =>
          /\ lenio.read.ok
          /\ lenio.read.hi = lenio.hi
          /\ lenio.read.lo = lenio.lo
          /\ lenio.read.pos = Len(lenio.buffer) + 1
          /\ lenio.read.fb = lenio.wrote.bytes

\* 64 has been written in two bytes into a buffer that held a byte, and
\* read back from a file that goes on after it.
C38_Witness ==
    /\ lenio.st = "read"
    /\ lenio.hi = 0
    /\ lenio.lo = 64
    /\ lenio.before # <<>>
    /\ lenio.after # <<>>
    /\ lenio.wrote.bytes = <<64, 64>>
    /\ lenio.read.lo = 64

TagBytes == {TagOf[t] : t \in DOMAIN TagOf}

\* The parser of k is about to parse bytes that start with no frame tag.
BadLead(k) == k.st = "open" /\ k.pc = "parse" /\ k.pbuf # <<>> /\ k.pbuf[1] \notin TagBytes

\* C22: when the bytes of a connection start with a byte that is no frame
\* tag, parse() returns an error and the connection is closed, with the
\* keyspace and every other connection as they were; after that every
\* other connection is still accepted and served to its end.
C22_UnknownTagClosesOneConnection ==
    /\ [][\A c \in Conns :
            (BadLead(conn[c]) /\ conn'[c] # conn[c]) =>
                /\ Parse(conn[c].pbuf).kind = "err"
                /\ conn'[c].st = "panicked"
                /\ KV' = KV /\ EXP' = EXP
                /\ \A d \in Conns \ {c} : conn'[d] = conn[d]]_vars
    /\ \A c \in Conns : \A d \in Conns \ {c} :
            (conn[c].st = "panicked" /\ conn[c].sent = <<>>) ~> ~Runnable(d)

\* The connection c1 sent an inline command and is gone; c2 was answered
\* after that.
C22_Witness ==
    /\ conn["c1"].st = "panicked"
    /\ conn["c1"].sent = <<>>
    /\ \E i \in 1..Len(conn["c2"].log) : "c1" \in conn["c2"].log[i].after

\* The request names a command of the command surface, in any letter case.
IsSurface(f) ==
    /\ f.tag = "Array" /\ ~f.null /\ f.kids # <<>>
    /\ IsBulk(f.kids[1])
    /\ \/ AsciiUpper(f.kids[1].val) \in SurfaceNames
       \/ /\ AsciiUpper(f.kids[1].val) = SurfaceConfig
          /\ Len(f.kids) >= 2
          /\ IsBulk(f.kids[2])
          /\ AsciiUpper(f.kids[2].val) \in SurfaceSubs

\* C24: PING, ECHO, SET, GET, KEYS, SAVE, CONFIG GET and CONFIG SET, in any
\* letter case, are routed to their handlers: none is answered with the
\* unknown-command error.
C24_SurfaceIsRouted ==
    \A c \in Conns : \A i \in 1..Len(conn[c].log) :
        IsSurface(conn[c].log[i].frame) =>
            /\ conn[c].log[i].route # "unknown"
            /\ conn[c].log[i].reply # ErrorF(MsgUnknown)

\* C25: a request with a command error is answered with an Error frame that
\* begins with "ERR ", leaves both maps unchanged, and leaves the
\* connection open: when the client has closed, every request was answered.
C25_CommandErrorsReplyErr ==
    \A c \in Conns :
        /\ \A i \in 1..Len(conn[c].log) :
              conn[c].log[i].frame \in CmdErrors =>
                  /\ conn[c].log[i].reply.tag = "Error"
                  /\ Len(conn[c].log[i].reply.val) >= 4
                  /\ SubSeq(conn[c].log[i].reply.val, 1, 4) = ErrPrefix
                  /\ ~conn[c].log[i].changed
        /\ (conn[c].sent # <<>> /\ conn[c].sent[1] \in CmdErrors) =>
              /\ (Len(conn[c].log) >= 1 /\ Len(conn[c].inbox) = 0) => conn[c].st # "panicked"
              /\ conn[c].st = "closed" => Len(conn[c].log) = Len(conn[c].sent)

\* C29: when a request arrives split across reads, the connection stays
\* open, nothing is dispatched for the partial frame, and when the rest has
\* arrived the request is dispatched once and answered.
C29_SplitRequestIsAnswered ==
    \A c \in Conns :
        conn[c].partial =>
            /\ conn[c].st # "panicked"
            /\ conn[c].started <= Len(conn[c].sent)
            /\ (conn[c].pc = "read" /\ conn[c].inbox # <<>>) => conn[c].started = Len(conn[c].log)
            /\ conn[c].st = "closed" => Len(conn[c].log) = Len(conn[c].sent)

\* C26: every key whose deadline has passed is eventually removed from both
\* maps, even when no client issues another command.
C26_ExpiredKeysArePurged ==
    \A k \in StrKeys :
        (EXP[k] # <<>> /\ now > EXP[k][1]) ~> (KV[k] = Absent /\ EXP[k] = <<>>)
====
